---- MODULE Spec2Model ----
(***************************************************************************)
(* A model of the OrbStack Alfred workflow: the container catalogue        *)
(* (helpers.py), its file cache, and the action dispatcher                 *)
(* (dispatcher.py).                                                        *)
(*                                                                         *)
(* Python values are modelled as tagged records (the JSON value algebra):  *)
(* a str is a tuple of one-character strings, a dict is a function from    *)
(* strs (its keys) to values, a list is a tuple of values.  Text that the  *)
(* program writes and reads back (the cache file, the runtime's stdout     *)
(* lines) is a tuple of JSON tokens, produced by JsonDump and parsed by    *)
(* JsonLoad.                                                               *)
(***************************************************************************)
EXTENDS Integers, Sequences, FiniteSets, TLC

(***************************************************************************)
(* Python values                                                           *)
(***************************************************************************)
JNull == [t |-> "null"]
JBool(b) == [t |-> "bool", b |-> b]
JNum(n) == [t |-> "num", n |-> n]
JStr(s) == [t |-> "str", s |-> s]
JList(l) == [t |-> "list", l |-> l]
JDict(d) == [t |-> "dict", d |-> d]

\* The empty dict {}: a function with an empty domain.
EmptyMap == [k \in {} |-> JNull]

IsStr(v) == v.t = "str"
IsDict(v) == v.t = "dict"
IsList(v) == v.t = "list"
IsNum(v) == v.t = "num"

\* Python truthiness: `if v:` / `v or default` / `not v`.
Truthy(v) ==
  CASE v.t = "null" -> FALSE
    [] v.t = "bool" -> v.b
    [] v.t = "num" -> v.n /= 0
    [] v.t = "str" -> v.s /= <<>>
    [] v.t = "list" -> v.l /= <<>>
    [] v.t = "dict" -> DOMAIN v.d /= {}

\* dict.get(key, default) on a dict value.
DictGet(v, key, default) == IF key \in DOMAIN v.d THEN v.d[key] ELSE default

\* `key in d`.
HasKey(v, key) == key \in DOMAIN v.d

\* A dict literal {k1: v1, k2: v2, ...} from its <<key, value>> pairs (a later
\* pair with the same key wins).
MkDict(pairs) ==
  JDict([key \in {pairs[i][1] : i \in 1..Len(pairs)} |->
           LET last == CHOOSE i \in 1..Len(pairs) :
                         /\ pairs[i][1] = key
                         /\ \A j \in (i + 1)..Len(pairs) : pairs[j][1] /= key
           IN  pairs[last][2]])

\* d with d[key] = value set.
DictSet(v, key, value) ==
  JDict([x \in DOMAIN v.d \cup {key} |-> IF x = key THEN value ELSE v.d[x]])

(***************************************************************************)
(* str operations                                                          *)
(***************************************************************************)
UpperChars == <<"A", "B", "C", "D", "E", "F", "G", "H", "I", "J", "K", "L", "M",
                "N", "O", "P", "Q", "R", "S", "T", "U", "V", "W", "X", "Y", "Z">>
LowerChars == <<"a", "b", "c", "d", "e", "f", "g", "h", "i", "j", "k", "l", "m",
                "n", "o", "p", "q", "r", "s", "t", "u", "v", "w", "x", "y", "z">>
DigitChars == <<"0", "1", "2", "3", "4", "5", "6", "7", "8", "9">>

IndexIn(c, chars) == IF \E i \in 1..Len(chars) : chars[i] = c
                     THEN CHOOSE i \in 1..Len(chars) : chars[i] = c
                     ELSE 0

\* str.lower(), one character.
LowerChar(c) == IF IndexIn(c, UpperChars) = 0 THEN c ELSE LowerChars[IndexIn(c, UpperChars)]

\* str.lower().
Lower(s) == [i \in 1..Len(s) |-> LowerChar(s[i])]

\* `sub in s` for two strs.
Contains(s, sub) ==
  \E i \in 0..(Len(s) - Len(sub)) : SubSeq(s, i + 1, i + Len(sub)) = sub

\* s.startswith(prefix).
StartsWith(s, prefix) ==
  Len(prefix) <= Len(s) /\ SubSeq(s, 1, Len(prefix)) = prefix

\* s[:n].
Take(s, n) == SubSeq(s, 1, IF Len(s) < n THEN Len(s) ELSE n)

\* s.lstrip(c) for a one-character c.
RECURSIVE LStrip(_, _)
LStrip(s, c) == IF s /= <<>> /\ Head(s) = c THEN LStrip(Tail(s), c) ELSE s

\* s.strip(): leading and trailing blanks removed.
RECURSIVE RStripBlank(_)
RStripBlank(s) == IF s /= <<>> /\ s[Len(s)] = " " THEN RStripBlank(SubSeq(s, 1, Len(s) - 1)) ELSE s
Strip(s) == RStripBlank(LStrip(s, " "))

\* str.isdigit() on ASCII text.
IsDigit(s) == s /= <<>> /\ \A i \in 1..Len(s) : IndexIn(s[i], DigitChars) /= 0

\* int(s) for a str of digits.
RECURSIVE ParseInt(_)
ParseInt(s) == IF s = <<>> THEN 0
               ELSE 10 * ParseInt(SubSeq(s, 1, Len(s) - 1)) + (IndexIn(s[Len(s)], DigitChars) - 1)

\* str(n) for n >= 0.
RECURSIVE Digits(_)
Digits(n) == IF n < 10 THEN <<DigitChars[n + 1]>>
             ELSE Digits(n \div 10) \o <<DigitChars[(n % 10) + 1]>>

\* s.split(sep): the pieces of s between the occurrences of sep, left to right.
RECURSIVE SplitFrom(_, _, _)
SplitFrom(s, sep, cur) ==
  IF s = <<>> THEN <<cur>>
  ELSE IF StartsWith(s, sep)
       THEN <<cur>> \o SplitFrom(SubSeq(s, Len(sep) + 1, Len(s)), sep, <<>>)
       ELSE SplitFrom(Tail(s), sep, Append(cur, Head(s)))
Split(s, sep) == SplitFrom(s, sep, <<>>)

\* Order of two characters by code point, over the characters the model uses.
CharOrder == <<" ", "-", ".", "/">> \o DigitChars \o UpperChars \o <<"_">> \o LowerChars
CharCode(c) == IndexIn(c, CharOrder)

\* a < b for two strs (lexicographic by code point).
RECURSIVE StrLess(_, _)
StrLess(a, b) ==
  IF b = <<>> THEN FALSE
  ELSE IF a = <<>> THEN TRUE
  ELSE IF CharCode(Head(a)) /= CharCode(Head(b)) THEN CharCode(Head(a)) < CharCode(Head(b))
  ELSE StrLess(Tail(a), Tail(b))

(***************************************************************************)
(* json.dump / json.load, at the level of tokens.  A token is a record     *)
(* [k, s]: k is the token's kind ("{", "}", "[", "]", ",", "key", "str",   *)
(* "num", "true", "false", "null"), s its text (the characters of a str,   *)
(* the digits of a number, the name of a key with its colon).              *)
(***************************************************************************)
Tok(k) == [k |-> k, s |-> <<>>]
TokS(k, s) == [k |-> k, s |-> s]

RECURSIVE JsonDump(_), DumpElems(_, _), DumpItems(_, _)
JsonDump(v) ==
  CASE v.t = "null" -> <<Tok("null")>>
    [] v.t = "bool" -> <<Tok(IF v.b THEN "true" ELSE "false")>>
    [] v.t = "num" -> <<TokS("num", Digits(v.n))>>
    [] v.t = "str" -> <<TokS("str", v.s)>>
    [] v.t = "list" -> <<Tok("[")>> \o DumpElems(v.l, 1) \o <<Tok("]")>>
    [] v.t = "dict" -> <<Tok("{")>> \o DumpItems(v.d, DOMAIN v.d) \o <<Tok("}")>>
DumpElems(l, i) ==
  IF i > Len(l) THEN <<>>
  ELSE (IF i > 1 THEN <<Tok(",")>> ELSE <<>>) \o JsonDump(l[i]) \o DumpElems(l, i + 1)
DumpItems(d, keys) ==
  IF keys = {} THEN <<>>
  ELSE LET key == CHOOSE x \in keys : TRUE
       IN  (IF keys /= DOMAIN d THEN <<Tok(",")>> ELSE <<>>)
           \o <<TokS("key", key)>> \o JsonDump(d[key]) \o DumpItems(d, keys \ {key})

\* The parser's result: ok (no JSONDecodeError so far), the value, and the
\* position of the next unread token.
ParseFail == [ok |-> FALSE, v |-> JNull, next |-> 0]
ParseOk(v, next) == [ok |-> TRUE, v |-> v, next |-> next]

RECURSIVE ParseValue(_, _), ParseElems(_, _, _), ParseItems(_, _, _)
ParseValue(toks, i) ==
  IF i > Len(toks) THEN ParseFail
  ELSE LET tk == toks[i] IN
    CASE tk.k = "null" -> ParseOk(JNull, i + 1)
      [] tk.k = "true" -> ParseOk(JBool(TRUE), i + 1)
      [] tk.k = "false" -> ParseOk(JBool(FALSE), i + 1)
      [] tk.k = "num" -> IF IsDigit(tk.s) THEN ParseOk(JNum(ParseInt(tk.s)), i + 1) ELSE ParseFail
      [] tk.k = "str" -> ParseOk(JStr(tk.s), i + 1)
      [] tk.k = "[" -> IF i + 1 <= Len(toks) /\ toks[i + 1].k = "]"
                       THEN ParseOk(JList(<<>>), i + 2)
                       ELSE ParseElems(toks, i + 1, <<>>)
      [] tk.k = "{" -> IF i + 1 <= Len(toks) /\ toks[i + 1].k = "}"
                       THEN ParseOk(JDict(EmptyMap), i + 2)
                       ELSE ParseItems(toks, i + 1, EmptyMap)
      [] OTHER -> ParseFail
ParseElems(toks, i, acc) ==
  LET r == ParseValue(toks, i) IN
    IF ~r.ok \/ r.next > Len(toks) THEN ParseFail
    ELSE IF toks[r.next].k = "]" THEN ParseOk(JList(Append(acc, r.v)), r.next + 1)
    ELSE IF toks[r.next].k = "," THEN ParseElems(toks, r.next + 1, Append(acc, r.v))
    ELSE ParseFail
ParseItems(toks, i, acc) ==
  IF i > Len(toks) \/ toks[i].k /= "key" THEN ParseFail
  ELSE LET r == ParseValue(toks, i + 1)
           name == toks[i].s
       IN  IF ~r.ok \/ r.next > Len(toks) THEN ParseFail
           ELSE LET acc2 == [x \in DOMAIN acc \cup {name} |-> IF x = name THEN r.v ELSE acc[x]]
                IN  IF toks[r.next].k = "}" THEN ParseOk(JDict(acc2), r.next + 1)
                    ELSE IF toks[r.next].k = "," THEN ParseItems(toks, r.next + 1, acc2)
                    ELSE ParseFail

\* json.loads(text): [ok |-> FALSE] stands for json.JSONDecodeError (empty
\* text, a truncated document, trailing data).
JsonLoad(toks) ==
  LET r == ParseValue(toks, 1)
  IN  IF r.ok /\ r.next = Len(toks) + 1 THEN [ok |-> TRUE, v |-> r.v]
      ELSE [ok |-> FALSE, v |-> JNull]

(***************************************************************************)
(* helpers.py: module constants                                            *)
(***************************************************************************)
COMMON_WEB_PORTS == {80, 443, 3000, 3001, 4000, 5000, 5001, 7000, 7001,
                     8000, 8001, 8080, 8081, 8888, 4200, 5173}

NEGATIVE_SERVICE_KEYWORDS ==
  <<<<"d", "b">>, <<"d", "a", "t", "a", "b", "a", "s", "e">>, <<"p", "o", "s", "t", "g", "r", "e", "s">>, <<"m", "y", "s", "q", "l">>, <<"m", "a", "r", "i", "a", "d", "b">>, <<"m", "o", "n", "g", "o">>, <<"r", "e", "d", "i", "s">>,
    <<"c", "a", "c", "h", "e">>, <<"w", "o", "r", "k", "e", "r">>, <<"q", "u", "e", "u", "e">>, <<"s", "c", "h", "e", "d", "u", "l", "e", "r">>, <<"j", "o", "b">>, <<"t", "a", "s", "k">>, <<"c", "e", "l", "e", "r", "y">>,
    <<"r", "a", "b", "b", "i", "t">>, <<"m", "e", "s", "s", "a", "g", "e">>, <<"b", "r", "o", "k", "e", "r">>, <<"m", "i", "n", "i", "o">>, <<"s", "3">>>>

POSITIVE_SERVICE_KEYWORDS == <<<<"w", "e", "b">>, <<"f", "r", "o", "n", "t", "e", "n", "d">>, <<"u", "i">>, <<"c", "l", "i", "e", "n", "t">>, <<"s", "i", "t", "e">>>>

WEB_IMAGE_KEYWORDS ==
  <<<<"n", "g", "i", "n", "x">>, <<"h", "t", "t", "p", "d">>, <<"c", "a", "d", "d", "y">>, <<"t", "r", "a", "e", "f", "i", "k">>, <<"h", "a", "p", "r", "o", "x", "y">>, <<"n", "o", "d", "e">>, <<"p", "y", "t", "h", "o", "n">>,
    <<"g", "u", "n", "i", "c", "o", "r", "n">>, <<"u", "w", "s", "g", "i">>, <<"a", "p", "a", "c", "h", "e">>, <<"p", "h", "p">>, <<"r", "a", "i", "l", "s">>, <<"d", "j", "a", "n", "g", "o">>, <<"f", "l", "a", "s", "k">>,
    <<"n", "e", "x", "t", "j", "s">>, <<"n", "u", "x", "t">>, <<"v", "i", "t", "e">>, <<"e", "x", "p", "r", "e", "s", "s">>>>

\* any(keyword in s for keyword in keywords)
ContainsAny(s, keywords) == \E i \in 1..Len(keywords) : Contains(s, keywords[i])

EmptyStr == JStr(<<>>)
EmptyDict == JDict(EmptyMap)

\* `v or default`
OrElse(v, default) == IF Truthy(v) THEN v ELSE default

(***************************************************************************)
(* URLDerivation                                                           *)
(***************************************************************************)
\* _add_port: the ports one value adds to the set (none, or one).
add_port(value) ==
  IF ~Truthy(value) THEN {}
  ELSE LET stripped == Strip(value.s) IN
       IF stripped = <<>> THEN {}
       ELSE LET port_part == Split(stripped, <<"/">>)[1] IN
            IF IsDigit(port_part) THEN {ParseInt(port_part)} ELSE {}

\* The ports of the 'Ports' column of `docker ps`.
ports_of_field(ports_field) ==
  IF ~Truthy(ports_field) THEN {}
  ELSE LET mappings == Split(ports_field.s, <<",">>) IN
       UNION { LET mapping == Strip(mappings[i]) IN
               IF Contains(mapping, <<"-", ">">>)
               THEN LET pieces == Split(mapping, <<"-", ">">>)
                    IN  add_port(JStr(pieces[Len(pieces)]))
               ELSE add_port(JStr(mapping))
             : i \in 1..Len(mappings) }

ports_of_keys_ignored(port_dict) == {}

\* The ports named by the keys of a port dict of `docker inspect`.
ports_of_keys(port_dict) == UNION { add_port(JStr(key)) : key \in DOMAIN port_dict.d }

\* _extract_container_ports: the set of ports (the code returns it sorted; its
\* only caller asks whether a member is a common web port).
extract_container_ports(container_data, inspect_data) ==
  LET ports_field == DictGet(container_data, <<"P", "o", "r", "t", "s">>, EmptyStr)
      inspect == OrElse(inspect_data, EmptyDict)
      config == DictGet(inspect, <<"C", "o", "n", "f", "i", "g">>, EmptyDict)
      exposed_ports == OrElse(DictGet(config, <<"E", "x", "p", "o", "s", "e", "d", "P", "o", "r", "t", "s">>, JNull), EmptyDict)
      network_settings == DictGet(inspect, <<"N", "e", "t", "w", "o", "r", "k", "S", "e", "t", "t", "i", "n", "g", "s">>, EmptyDict)
      network_ports == OrElse(DictGet(network_settings, <<"P", "o", "r", "t", "s">>, JNull), EmptyDict)
  IN  ports_of_field(ports_field) \cup ports_of_keys(exposed_ports)
        \cup ports_of_keys(network_ports)

\* The candidates list of _has_positive_name_hint.
name_candidates(container_data, inspect_data) ==
  LET container_name == DictGet(container_data, <<"N", "a", "m", "e", "s">>, EmptyStr)
      inspect == OrElse(inspect_data, EmptyDict)
      labels == OrElse(DictGet(OrElse(DictGet(inspect, <<"C", "o", "n", "f", "i", "g">>, EmptyDict), EmptyDict),
                               <<"L", "a", "b", "e", "l", "s">>, JNull), EmptyDict)
      service == DictGet(labels, <<"c", "o", "m", ".", "d", "o", "c", "k", "e", "r", ".", "c", "o", "m", "p", "o", "s", "e", ".", "s", "e", "r", "v", "i", "c", "e">>, EmptyStr)
      project == DictGet(labels, <<"c", "o", "m", ".", "d", "o", "c", "k", "e", "r", ".", "c", "o", "m", "p", "o", "s", "e", ".", "p", "r", "o", "j", "e", "c", "t">>, EmptyStr)
  IN  (IF Truthy(container_name) THEN <<Lower(LStrip(container_name.s, "/"))>> ELSE <<>>)
      \o (IF Truthy(service) THEN <<Lower(service.s)>> ELSE <<>>)
      \o (IF Truthy(project) THEN <<Lower(project.s)>> ELSE <<>>)

candidate_is_positive_despite_negative(candidate) ==
  ContainsAny(candidate, POSITIVE_SERVICE_KEYWORDS)

\* The loop body of _has_positive_name_hint for one candidate: a candidate with
\* a negative keyword is skipped, one with a positive keyword answers True.
candidate_is_positive(candidate) ==
  /\ ~ContainsAny(candidate, NEGATIVE_SERVICE_KEYWORDS)
  /\ ContainsAny(candidate, POSITIVE_SERVICE_KEYWORDS)

has_positive_name_hint(container_data, inspect_data) ==
  LET candidates == name_candidates(container_data, inspect_data)
  IN  \E i \in 1..Len(candidates) : candidate_is_positive(candidates[i])

has_web_port(container_data, inspect_data) ==
  extract_container_ports(container_data, inspect_data) \cap COMMON_WEB_PORTS /= {}

has_web_image_never(container_data) == FALSE

has_web_image(container_data) ==
  LET image_lower == Lower(OrElse(DictGet(container_data, <<"I", "m", "a", "g", "e">>, JNull), EmptyStr).s)
  IN  ContainsAny(image_lower, WEB_IMAGE_KEYWORDS)

is_web_service(container_data, inspect_data) ==
  \/ has_web_port(container_data, inspect_data)
  \/ has_positive_name_hint(container_data, inspect_data)
  \/ has_web_image(container_data)

\* Config.url_scheme (URL_SCHEME, default 'https').
url_scheme_plain == <<"h", "t", "t", "p">>

url_scheme == <<"h", "t", "t", "p", "s">>

\* The compose labels of an inspect record as derive_url and _enrich_container
\* read them: {} unless the record has Config.Labels, and {} for a null Labels.
labels_of(inspect_data) ==
  IF /\ Truthy(inspect_data)
     /\ HasKey(inspect_data, <<"C", "o", "n", "f", "i", "g">>)
     /\ HasKey(inspect_data.d[<<"C", "o", "n", "f", "i", "g">>], <<"L", "a", "b", "e", "l", "s">>)
  THEN OrElse(inspect_data.d[<<"C", "o", "n", "f", "i", "g">>].d[<<"L", "a", "b", "e", "l", "s">>], EmptyDict)
  ELSE EmptyDict

derive_url(container_data, inspect_data) ==
  LET labels == labels_of(inspect_data)
      project == DictGet(labels, <<"c", "o", "m", ".", "d", "o", "c", "k", "e", "r", ".", "c", "o", "m", "p", "o", "s", "e", ".", "p", "r", "o", "j", "e", "c", "t">>, JNull)
      service == DictGet(labels, <<"c", "o", "m", ".", "d", "o", "c", "k", "e", "r", ".", "c", "o", "m", "p", "o", "s", "e", ".", "s", "e", "r", "v", "i", "c", "e">>, JNull)
      stripped == LStrip(DictGet(container_data, <<"N", "a", "m", "e", "s">>, EmptyStr).s, "/")
      container_name == IF stripped /= <<>> THEN stripped
                        ELSE Take(DictGet(container_data, <<"I", "D">>, EmptyStr).s, 12)
      domain == IF Truthy(project) /\ Truthy(service)
                THEN service.s \o <<".">> \o project.s \o <<".", "o", "r", "b", ".", "l", "o", "c", "a", "l">>
                ELSE container_name \o <<".", "o", "r", "b", ".", "l", "o", "c", "a", "l">>
  IN  JStr(url_scheme \o <<":", "/", "/">> \o domain \o <<"/">>)

\* str.replace('_', ' ').replace('-', ' ')
SeparatorsToSpaces(s) == [i \in 1..Len(s) |-> IF s[i] \in {"_", "-"} THEN " " ELSE s[i]]

\* re.sub(r'^\d+\s*', '', s)
RECURSIVE DropLeading(_, _)
DropLeading(s, chars) == IF s /= <<>> /\ Head(s) \in chars THEN DropLeading(Tail(s), chars) ELSE s
DropNumericPrefix(s) ==
  IF s /= <<>> /\ IndexIn(Head(s), DigitChars) /= 0
  THEN DropLeading(DropLeading(s, {DigitChars[i] : i \in 1..Len(DigitChars)}), {" "})
  ELSE s

\* re.sub(r'\s+', ' ', s)
RECURSIVE CollapseSpaces(_)
CollapseSpaces(s) ==
  IF Len(s) < 2 THEN s
  ELSE IF s[1] = " " /\ s[2] = " " THEN CollapseSpaces(Tail(s))
  ELSE <<s[1]>> \o CollapseSpaces(Tail(s))

clean_project_name_kept(project) == IF ~Truthy(project) THEN <<>> ELSE project.s

clean_project_name(project) ==
  IF ~Truthy(project) THEN <<>>
  ELSE Strip(CollapseSpaces(DropNumericPrefix(SeparatorsToSpaces(project.s))))

(***************************************************************************)
(* ContainerManager._enrich_container                                      *)
(***************************************************************************)
enriched_status_cased(container) ==
  LET status == DictGet(container, <<"S", "t", "a", "t", "u", "s">>, EmptyStr).s
  IN  IF Contains(status, <<"u", "p">>) THEN <<"r", "u", "n", "n", "i", "n", "g">>
      ELSE IF Contains(status, <<"e", "x", "i", "t", "e", "d">>) THEN <<"s", "t", "o", "p", "p", "e", "d">>
      ELSE <<"u", "n", "k", "n", "o", "w", "n">>

enriched_status(container) ==
  LET status == Lower(DictGet(container, <<"S", "t", "a", "t", "u", "s">>, EmptyStr).s)
  IN  IF Contains(status, <<"u", "p">>) THEN <<"r", "u", "n", "n", "i", "n", "g">>
      ELSE IF Contains(status, <<"e", "x", "i", "t", "e", "d">>) THEN <<"s", "t", "o", "p", "p", "e", "d">>
      ELSE <<"u", "n", "k", "n", "o", "w", "n">>

enriched_health(inspect_data) ==
  IF /\ Truthy(inspect_data)
     /\ HasKey(inspect_data, <<"S", "t", "a", "t", "e">>)
     /\ HasKey(inspect_data.d[<<"S", "t", "a", "t", "e">>], <<"H", "e", "a", "l", "t", "h">>)
  THEN DictGet(inspect_data.d[<<"S", "t", "a", "t", "e">>].d[<<"H", "e", "a", "l", "t", "h">>], <<"S", "t", "a", "t", "u", "s">>, JStr(<<"u", "n", "k", "n", "o", "w", "n">>))
  ELSE JStr(<<"u", "n", "k", "n", "o", "w", "n">>)

display_name_of(container_id, container_name, project, service, is_web) ==
  LET base_display_name ==
        IF Truthy(service) THEN service
        ELSE IF container_name /= <<>> THEN JStr(container_name)
        ELSE JStr(Take(container_id, 12))
      project_display == clean_project_name(project)
  IN  IF ~is_web THEN base_display_name
      ELSE IF Truthy(service) /\ project_display /= <<>>
           THEN JStr(service.s \o <<" ", "-", " ">> \o project_display)
      ELSE IF project_display /= <<>> THEN JStr(project_display)
      ELSE IF Truthy(service) THEN service
      ELSE base_display_name

enrich_container(container, inspect_data, stats_data) ==
  LET container_id == DictGet(container, <<"I", "D">>, EmptyStr).s
      container_name == LStrip(DictGet(container, <<"N", "a", "m", "e", "s">>, EmptyStr).s, "/")
      labels == labels_of(inspect_data)
      project == DictGet(labels, <<"c", "o", "m", ".", "d", "o", "c", "k", "e", "r", ".", "c", "o", "m", "p", "o", "s", "e", ".", "p", "r", "o", "j", "e", "c", "t">>, JNull)
      service == DictGet(labels, <<"c", "o", "m", ".", "d", "o", "c", "k", "e", "r", ".", "c", "o", "m", "p", "o", "s", "e", ".", "s", "e", "r", "v", "i", "c", "e">>, JNull)
      is_web == is_web_service(container, inspect_data)
  IN  MkDict(<< <<<<"i", "d">>, JStr(container_id)>>,
                <<<<"n", "a", "m", "e">>, JStr(container_name)>>,
                <<<<"d", "i", "s", "p", "l", "a", "y", "_", "n", "a", "m", "e">>,
                  display_name_of(container_id, container_name, project, service, is_web)>>,
                <<<<"p", "r", "o", "j", "e", "c", "t">>, project>>,
                <<<<"s", "e", "r", "v", "i", "c", "e">>, service>>,
                <<<<"s", "t", "a", "t", "u", "s">>, JStr(enriched_status(container))>>,
                <<<<"h", "e", "a", "l", "t", "h">>, enriched_health(inspect_data)>>,
                <<<<"i", "m", "a", "g", "e">>, DictGet(container, <<"I", "m", "a", "g", "e">>, EmptyStr)>>,
                <<<<"p", "o", "r", "t", "s">>, DictGet(container, <<"P", "o", "r", "t", "s">>, EmptyStr)>>,
                <<<<"u", "r", "l">>, derive_url(container, inspect_data)>>,
                <<<<"i", "s", "_", "w", "e", "b", "_", "s", "e", "r", "v", "i", "c", "e">>, JBool(is_web)>>,
                <<<<"s", "t", "a", "t", "s">>, stats_data>>,
                <<<<"l", "a", "b", "e", "l", "s">>, labels>>,
                <<<<"r", "a", "w", "_", "c", "o", "n", "t", "a", "i", "n", "e", "r">>, container>>,
                <<<<"r", "a", "w", "_", "i", "n", "s", "p", "e", "c", "t">>, inspect_data>> >>)

(***************************************************************************)
(* The sort of get_all_containers: list.sort with the key                  *)
(* (not is_web_service, status != 'running', display_name.lower()).        *)
(* list.sort is stable; on a short list it is a binary insertion sort,     *)
(* each element going after the elements whose key is not greater.         *)
(***************************************************************************)
sort_key_keeping_case(c) ==
  [not_web |-> IF Truthy(DictGet(c, <<"i", "s", "_", "w", "e", "b", "_", "s", "e", "r", "v", "i", "c", "e">>, JBool(FALSE))) THEN 0 ELSE 1,
   not_running |-> IF c.d[<<"s", "t", "a", "t", "u", "s">>] /= JStr(<<"r", "u", "n", "n", "i", "n", "g">>) THEN 1 ELSE 0,
   name |-> DictGet(c, <<"d", "i", "s", "p", "l", "a", "y", "_", "n", "a", "m", "e">>, EmptyStr).s]

\* key=lambda c: (not c.get('is_web_service', False), c['status'] != 'running',
\*                c.get('display_name', '').lower())
sort_key(c) ==
  [not_web |-> IF Truthy(DictGet(c, <<"i", "s", "_", "w", "e", "b", "_", "s", "e", "r", "v", "i", "c", "e">>, JBool(FALSE))) THEN 0 ELSE 1,
   not_running |-> IF c.d[<<"s", "t", "a", "t", "u", "s">>] /= JStr(<<"r", "u", "n", "n", "i", "n", "g">>) THEN 1 ELSE 0,
   name |-> Lower(DictGet(c, <<"d", "i", "s", "p", "l", "a", "y", "_", "n", "a", "m", "e">>, EmptyStr).s)]

\* a < b for two keys (tuple comparison, False < True).
KeyLess(a, b) ==
  \/ a.not_web < b.not_web
  \/ /\ a.not_web = b.not_web
     /\ \/ a.not_running < b.not_running
        \/ /\ a.not_running = b.not_running
           /\ StrLess(a.name, b.name)

\* x inserted into a sorted list before the first element whose key is greater.
InsertByKey(sorted, x) ==
  LET later == {i \in 1..Len(sorted) : KeyLess(sort_key(x), sort_key(sorted[i]))}
      at == IF later = {} THEN Len(sorted) + 1
            ELSE CHOOSE i \in later : \A j \in later : i <= j
  IN  SubSeq(sorted, 1, at - 1) \o <<x>> \o SubSeq(sorted, at, Len(sorted))

RECURSIVE SortFrom(_, _, _)
SortFrom(l, i, sorted) ==
  IF i > Len(l) THEN sorted ELSE SortFrom(l, i + 1, InsertByKey(sorted, l[i]))

sort_enriched(enriched) == SortFrom(enriched, 1, <<>>)

(***************************************************************************)
(* DockerClient: what list_containers, inspect_containers and get_stats    *)
(* make of a finished command.  A run is _run_command's result: success    *)
(* and stdout, the stdout already cut into lines.  A line of `docker ps`   *)
(* or `docker inspect` is JSON text (tokens); a line of `docker stats` is  *)
(* plain text (a str).                                                     *)
(***************************************************************************)
FailedRun == [success |-> FALSE, stdout |-> <<>>]

RECURSIVE ParsedLines(_, _)
ParsedLines(lines, i) ==
  IF i > Len(lines) THEN <<>>
  ELSE LET r == JsonLoad(lines[i])
       IN  (IF lines[i] /= <<>> /\ r.ok THEN <<r.v>> ELSE <<>>) \o ParsedLines(lines, i + 1)

list_containers(run) == IF ~run.success THEN <<>> ELSE ParsedLines(run.stdout, 1)

\* The dict built by inspect_containers keeps the order in which its keys
\* were first set: a tuple of [id, data] records.
OrderedSet(items, id, data) ==
  IF \E i \in 1..Len(items) : items[i].id = id
  THEN [i \in 1..Len(items) |-> IF items[i].id = id THEN [id |-> id, data |-> data] ELSE items[i]]
  ELSE Append(items, [id |-> id, data |-> data])

\* data['Id'] raises KeyError on a dict without the key and TypeError on a
\* value that is no dict; only json.JSONDecodeError is caught.
RECURSIVE InspectLines(_, _, _)
InspectLines(lines, i, items) ==
  IF i > Len(lines) THEN [raised |-> FALSE, items |-> items]
  ELSE IF lines[i] = <<>> THEN InspectLines(lines, i + 1, items)
  ELSE LET r == JsonLoad(lines[i]) IN
       IF ~r.ok THEN InspectLines(lines, i + 1, items)
       ELSE IF ~IsDict(r.v) \/ ~HasKey(r.v, <<"I", "d">>) THEN [raised |-> TRUE, items |-> <<>>]
       ELSE InspectLines(lines, i + 1, OrderedSet(items, r.v.d[<<"I", "d">>].s, r.v))

inspect_containers(run) ==
  IF ~run.success THEN [raised |-> FALSE, items |-> <<>>]
  ELSE InspectLines(run.stdout, 1, <<>>)

\* line.split(' ', 2)
SplitTwice(line) ==
  LET first == Split(line, <<" ">>) IN
  IF Len(first) < 3 THEN first
  ELSE LET n1 == Len(first[1])
           n2 == Len(first[2])
       IN  <<first[1], first[2], SubSeq(line, n1 + n2 + 3, Len(line))>>

RECURSIVE StatsLines(_, _, _)
StatsLines(lines, i, stats) ==
  IF i > Len(lines) THEN stats
  ELSE LET parts == SplitTwice(lines[i]) IN
       IF lines[i] /= <<>> /\ Len(parts) >= 3
       THEN StatsLines(lines, i + 1,
              DictSet(stats, parts[1],
                      MkDict(<< <<<<"c", "p", "u", "_", "p", "e", "r", "c", "e", "n", "t">>, JStr(parts[2])>>,
                                <<<<"m", "e", "m", "o", "r", "y", "_", "u", "s", "a", "g", "e">>, JStr(parts[3])>> >>)))
       ELSE StatsLines(lines, i + 1, stats)

get_stats(run) == IF ~run.success THEN EmptyDict ELSE StatsLines(run.stdout, 1, EmptyDict)

(***************************************************************************)
(* Cache                                                                   *)
(***************************************************************************)
\* Config.cache_ttl_ms (CACHE_TTL_MS, default 2000).
cache_ttl_ms == 2000

cache_entry_in_seconds(timestamp, data) ==
  MkDict(<< <<<<"t", "i", "m", "e", "s", "t", "a", "m", "p">>, JNum(timestamp \div 1000)>>, <<<<"d", "a", "t", "a">>, data>> >>)

\* The document Cache.set dumps.
cache_entry(timestamp, data) ==
  MkDict(<< <<<<"t", "i", "m", "e", "s", "t", "a", "m", "p">>, JNum(timestamp)>>, <<<<"d", "a", "t", "a">>, data>> >>)

expired_never(time_ms, timestamp) == FALSE

\* `time.time() * 1000 - data.get('timestamp', 0) > self.config.cache_ttl_ms`
expired(time_ms, timestamp) == time_ms - timestamp > cache_ttl_ms

cache_load_without_data(content, time_ms) == [value |-> JNull, unlink |-> FALSE]

\* Cache.get once the file is open: what it returns, and whether it unlinks
\* the file.  Every exception (the text is no JSON, the document is no dict,
\* the timestamp is no number) is caught: the file is unlinked, None returned.
cache_load(content, time_ms) ==
  LET r == JsonLoad(content)
      miss == [value |-> JNull, unlink |-> TRUE]
  IN  IF ~r.ok \/ ~IsDict(r.v) THEN miss
      ELSE LET timestamp == DictGet(r.v, <<"t", "i", "m", "e", "s", "t", "a", "m", "p">>, JNum(0)) IN
           IF ~IsNum(timestamp) THEN miss
           ELSE IF expired(time_ms, timestamp.n) THEN miss
           ELSE [value |-> DictGet(r.v, <<"d", "a", "t", "a">>, JNull), unlink |-> FALSE]

(***************************************************************************)
(* ContainerManager.get_all_containers: the steps between the runtime's    *)
(* answers and the cache write                                             *)
(***************************************************************************)
\* container_ids = [c.get('ID', '') for c in containers if c.get('ID')]
RECURSIVE container_ids(_)
container_ids(containers) ==
  IF containers = <<>> THEN <<>>
  ELSE LET id == DictGet(Head(containers), <<"I", "D">>, EmptyStr)
       IN  (IF Truthy(id) THEN <<id.s>> ELSE <<>>) \o container_ids(Tail(containers))

\* running_ids = [c.get('ID', '') for c in containers if 'Up' in c.get('Status', '')][:10]
RECURSIVE running_ids_all(_)
running_ids_all(containers) ==
  IF containers = <<>> THEN <<>>
  ELSE LET c == Head(containers)
       IN  (IF Contains(DictGet(c, <<"S", "t", "a", "t", "u", "s">>, EmptyStr).s, <<"U", "p">>)
            THEN <<DictGet(c, <<"I", "D">>, EmptyStr).s>> ELSE <<>>)
           \o running_ids_all(Tail(containers))
StatsLimit == 10
running_ids_unlimited(containers) == running_ids_all(containers)

running_ids(containers) == Take(running_ids_all(containers), StatsLimit)

\* The inspect record matched to a list identifier: the first key of the
\* inspect dict that starts with it, {} when there is none.
match_inspect(inspected, container_id) ==
  LET hits == {i \in 1..Len(inspected) : StartsWith(inspected[i].id, container_id)}
  IN  IF hits = {} THEN EmptyDict
      ELSE inspected[CHOOSE i \in hits : \A j \in hits : i <= j].data

\* stats_data.get(container_id, {})
match_stats(stats_data, container_id) == DictGet(stats_data, container_id, EmptyDict)

enrich_all(containers, inspected, stats_data) ==
  [i \in 1..Len(containers) |->
     LET container_id == DictGet(containers[i], <<"I", "D">>, EmptyStr).s
     IN  enrich_container(containers[i], match_inspect(inspected, container_id),
                          match_stats(stats_data, container_id))]

\* The list get_all_containers caches and returns after a rebuild.
build_catalog(containers, inspected, stats_data) ==
  sort_enriched(enrich_all(containers, inspected, stats_data))

(***************************************************************************)
(* The container runtime (the docker CLI of OrbStack): the containers it   *)
(* holds, and the stdout of `docker ps`, `docker inspect`, `docker stats`. *)
(***************************************************************************)
ComposeLabels(project, service) ==
  MkDict(<< <<<<"c", "o", "m", ".", "d", "o", "c", "k", "e", "r", ".", "c", "o", "m", "p", "o", "s", "e", ".", "p", "r", "o", "j", "e", "c", "t">>, JStr(project)>>,
            <<<<"c", "o", "m", ".", "d", "o", "c", "k", "e", "r", ".", "c", "o", "m", "p", "o", "s", "e", ".", "s", "e", "r", "v", "i", "c", "e">>, JStr(service)>> >>)

\* The containers of the runtime: a compose project of a web service and its
\* database.  `docker ps` prints the short identifier, `docker inspect` the
\* full one.
Population ==
  << [short_id |-> <<"4", "f", "3", "c">>, full_id |-> <<"4", "f", "3", "c", "2", "d", "1", "e">>,
      name |-> <<"0", "1", "-", "s", "h", "o", "p", "-", "w", "e", "b", "-", "1">>, image |-> <<"s", "h", "o", "p", "-", "w", "e", "b">>,
      ports |-> <<"0", ".", "0", ".", "0", ".", "0", ":", "8", "0", "8", "0", "-", ">", "8", "0", "/", "t", "c", "p">>, port_key |-> <<"8", "0", "/", "t", "c", "p">>,
      labels |-> ComposeLabels(<<"0", "1", "-", "s", "h", "o", "p">>, <<"w", "e", "b">>), health |-> <<"h", "e", "a", "l", "t", "h", "y">>],
     [short_id |-> <<"9", "b", "8", "c">>, full_id |-> <<"9", "b", "8", "c", "7", "d", "6", "e">>,
      name |-> <<"0", "1", "-", "s", "h", "o", "p", "-", "w", "e", "b", "_", "d", "b", "-", "1">>, image |-> <<"p", "o", "s", "t", "g", "r", "e", "s", ":", "1", "5">>,
      ports |-> <<"5", "4", "3", "2", "/", "t", "c", "p">>, port_key |-> <<"5", "4", "3", "2", "/", "t", "c", "p">>,
      labels |-> ComposeLabels(<<"0", "1", "-", "s", "h", "o", "p">>, <<"w", "e", "b", "_", "d", "b">>), health |-> <<>>] >>

Containers == 1..Len(Population)

\* One record of `docker ps --all --format '{{json .}}'`.
PsRecord(i, is_running) ==
  LET c == Population[i] IN
  MkDict(<< <<<<"I", "D">>, JStr(c.short_id)>>,
            <<<<"N", "a", "m", "e", "s">>, JStr(c.name)>>,
            <<<<"I", "m", "a", "g", "e">>, JStr(c.image)>>,
            <<<<"S", "t", "a", "t", "u", "s">>, JStr(IF is_running THEN <<"U", "p", " ", "2", " ", "h", "o", "u", "r", "s">> ELSE <<"E", "x", "i", "t", "e", "d", " ", "(", "0", ")", " ", "3", " ", "m", "i", "n", "u", "t", "e", "s", " ", "a", "g", "o">>)>>,
            <<<<"P", "o", "r", "t", "s">>, JStr(IF is_running THEN c.ports ELSE <<>>)>> >>)

\* One record of `docker inspect --format '{{json .}}'`: the container's
\* configuration, its health as last checked, its port bindings.
InspectRecord(i) ==
  LET c == Population[i]
      state == IF c.health /= <<>>
               THEN MkDict(<< <<<<"H", "e", "a", "l", "t", "h">>, MkDict(<< <<<<"S", "t", "a", "t", "u", "s">>, JStr(c.health)>> >>)>> >>)
               ELSE EmptyDict
  IN  MkDict(<< <<<<"I", "d">>, JStr(c.full_id)>>,
                <<<<"C", "o", "n", "f", "i", "g">>, MkDict(<< <<<<"L", "a", "b", "e", "l", "s">>, c.labels>>,
                                       <<<<"E", "x", "p", "o", "s", "e", "d", "P", "o", "r", "t", "s">>, MkDict(<< <<c.port_key, EmptyDict>> >>)>> >>)>>,
                <<<<"S", "t", "a", "t", "e">>, state>>,
                <<<<"N", "e", "t", "w", "o", "r", "k", "S", "e", "t", "t", "i", "n", "g", "s">>, MkDict(<< <<<<"P", "o", "r", "t", "s">>, MkDict(<< <<c.port_key, JNull>> >>)>> >>)>> >>)

\* Lines the runtime may add to a listing: none, text that is no JSON, JSON
\* that is no object, an object without an identifier.
NoiseLines ==
  [none |-> <<>>,
   garbage |-> << <<Tok("{"), TokS("key", <<"I", "D">>)>> >>,
   not_object |-> << JsonDump(JNum(7)) >>,
   no_id |-> << JsonDump(MkDict(<< <<<<"N", "a", "m", "e">>, JStr(<<"/", "o", "r", "p", "h", "a", "n">>)>> >>)) >>]
Noise == DOMAIN NoiseLines

\* How a docker command can end when the binary was found.
Outcomes == {"ok", "nonzero", "timeout"}

QueryRun_despite_failure(docker_path, outcome, lines) == [success |-> TRUE, stdout |-> lines]

\* _run_command for a query: no docker binary, a non-zero exit, a timeout and
\* an exception of subprocess.run all give (False, ...).
QueryRun(docker_path, outcome, lines) ==
  IF docker_path /\ outcome = "ok" THEN [success |-> TRUE, stdout |-> lines] ELSE FailedRun

PsStdout(status, noise) ==
  [i \in Containers |-> JsonDump(PsRecord(i, status[i]))] \o NoiseLines[noise]

\* `docker inspect` answers for the identifiers it is given, in their order.
RECURSIVE InspectStdoutFor(_)
InspectStdoutFor(ids) ==
  IF ids = <<>> THEN <<>>
  ELSE LET hits == {i \in Containers : StartsWith(Population[i].full_id, Head(ids))}
       IN  (IF hits = {} THEN <<>>
            ELSE LET i == CHOOSE i \in hits : \A j \in hits : i <= j
                 IN  <<JsonDump(InspectRecord(i))>>)
           \o InspectStdoutFor(Tail(ids))
InspectStdout(ids, noise) == InspectStdoutFor(ids) \o NoiseLines[noise]

\* `docker stats --no-stream --format '{{.Container}} {{.CPUPerc}} {{.MemUsage}}'`
\* prints one line per identifier given.
StatsStdout(ids) == [i \in 1..Len(ids) |-> ids[i] \o <<" ", "0", ".", "5", "0", "%", " ", "1", "0", "M", "i", "B", " ", "/", " ", "1", "G", "i", "B">>]

(***************************************************************************)
(* State                                                                   *)
(***************************************************************************)
VARIABLES
  now,      \* the wall clock, time.time() * 1000
  files,    \* the cache directory: for each key, whether '<key>.json' exists and its content
  meta,     \* what 'containers.json' holds when it is a complete document (history)
  running,  \* the runtime: for each container, whether it is running
  pc,       \* each process's position
  op,       \* each process's invocation: what it was asked to do, and its Config
  loc,      \* each process's local variables
  hist,     \* what each process has done in this invocation (history)
  runs,     \* how many invocations each process has started
  last,     \* the latest Cache.set / Cache.get of the sequential cache client (SpecCache)
  sample,   \* the input of the classification (SpecClassify)
  out,      \* the output of the classification (SpecClassify)
  unsorted, \* the input of the sort (SpecSort)
  sorted    \* the output of the sort (SpecSort)

vars == <<now, files, meta, running, pc, op, loc, hist, runs, last, sample, out, unsorted, sorted>>
sysVars == <<meta, running, pc, op, loc, hist, runs>>
cacheVars == <<last>>
classifyVars == <<sample, out>>
sortVars == <<unsorted, sorted>>

\* Bounds of the model.
Epoch == 100000
TickMs == 1500
MaxTicks == 2
WriteChunk == 120
MaxRuns == 1
MaxCacheOps == 2
MaxElapses == 1
MaxSortLen == 3

Pickers == {"picker"}
Dispatchers == {"dispatcher"}
Procs == Pickers \cup Dispatchers

CacheKeys == {<<"c", "o", "n", "t", "a", "i", "n", "e", "r", "s">>, <<"p", "r", "o", "j", "e", "c", "t", "s">>}
cache_key == <<"c", "o", "n", "t", "a", "i", "n", "e", "r", "s">>

AbsentFile == [exists |-> FALSE, content |-> <<>>]
NoMeta == [complete |-> FALSE, timestamp |-> 0, data |-> JNull]

NoOp == [kind |-> "none", use_cache |-> FALSE, enable_stats |-> FALSE, docker_path |-> FALSE,
         id |-> JNull, project |-> JNull, action_type |-> "none"]
NoLoc == [containers |-> <<>>, inspected |-> <<>>, stats_data |-> EmptyDict,
          enriched |-> <<>>, buffer |-> <<>>, result |-> JNull, todo |-> <<>>,
          linked |-> FALSE, offset |-> 0, timestamp |-> 0]
NoHist == [queries |-> 0, reads |-> 0, read_complete |-> TRUE, writes |-> 0,
           issued |-> 0, cleared |-> FALSE]
NoEntry == [kind |-> "absent", timestamp |-> 0, value |-> JNull]
NoLast == [op |-> "none", key |-> <<>>, time |-> 0, ret |-> JNull, before |-> NoEntry,
           stored |-> [k \in CacheKeys |-> NoEntry], ops |-> 0, elapses |-> 0]

IdleSys ==
  /\ meta = NoMeta
  /\ running = [i \in Containers |-> i = 1]
  /\ pc = [p \in Procs |-> "idle"]
  /\ op = [p \in Procs |-> NoOp]
  /\ loc = [p \in Procs |-> NoLoc]
  /\ hist = [p \in Procs |-> NoHist]
  /\ runs = [p \in Procs |-> 0]
IdleCache == last = NoLast
IdleClassify == sample = JNull /\ out = JNull
NoList == [given |-> FALSE, l |-> <<>>]
IdleSort == unsorted = NoList /\ sorted = NoList

Init ==
  /\ now = Epoch
  /\ files = [k \in CacheKeys |-> AbsentFile]
  /\ IdleSys /\ IdleCache /\ IdleClassify /\ IdleSort

(***************************************************************************)
(* The cache file 'containers.json' as the processes of the system see it  *)
(***************************************************************************)
file == files[cache_key]

\* The file after a write of chunk at offset: a hole left by a truncation is
\* read back as NUL bytes.
Nul == Tok("nul")
WriteAt(content, offset, chunk) ==
  LET size == IF Len(content) > offset + Len(chunk) THEN Len(content) ELSE offset + Len(chunk)
  IN  [i \in 1..size |->
         IF i > offset /\ i <= offset + Len(chunk) THEN chunk[i - offset]
         ELSE IF i <= Len(content) THEN content[i]
         ELSE Nul]

\* Path.unlink(missing_ok=True): the name is gone; a process that holds the
\* file open keeps writing to a file no name leads to.
Unlink ==
  /\ files' = [files EXCEPT ![cache_key] = AbsentFile]
  /\ meta' = NoMeta

Unlinked(l, p, changes) ==
  [q \in Procs |-> IF q = p THEN changes ELSE [l[q] EXCEPT !.linked = FALSE]]

\* get_all_containers returns value: a picker is done, a dispatcher goes on
\* with the project's containers.
Return(p, value, l, h) ==
  /\ pc' = [pc EXCEPT ![p] = IF op[p].kind = "refresh" THEN "done" ELSE "project_select"]
  /\ loc' = [l EXCEPT ![p].result = value, ![p].containers = <<>>, ![p].inspected = <<>>,
                      ![p].stats_data = EmptyDict]
  /\ hist' = h

\* What the actions of the system leave alone.
SysFrame == UNCHANGED <<last, sample, out, unsorted, sorted>>
Step == UNCHANGED runs /\ SysFrame

(***************************************************************************)
(* ContainerManager.get_all_containers(use_cache), as a picker query calls  *)
(* it (script_filter.py main) or any other caller with its own options     *)
(***************************************************************************)
StartRefresh(p, UseCache, EnableStats, DockerPath) ==
  /\ p \in Pickers
  /\ pc[p] = "idle"
  /\ runs[p] < MaxRuns
  /\ runs' = [runs EXCEPT ![p] = @ + 1]
  /\ \E use_cache \in UseCache, enable_stats \in EnableStats, docker_path \in DockerPath :
       /\ op' = [op EXCEPT ![p] = [NoOp EXCEPT !.kind = "refresh", !.use_cache = use_cache,
                                                !.enable_stats = enable_stats,
                                                !.docker_path = docker_path]]
       /\ pc' = [pc EXCEPT ![p] = IF use_cache THEN "get_exists" ELSE "list"]
  /\ UNCHANGED <<now, files, meta, running, loc, hist>>
  /\ SysFrame

\* Cache.get: `if not cache_file.exists(): return None`
CacheGetExists(p) ==
  /\ pc[p] = "get_exists"
  /\ pc' = [pc EXCEPT ![p] = IF file.exists THEN "get_read" ELSE "list"]
  /\ UNCHANGED <<now, files, meta, running, op, loc, hist>>
  /\ Step

\* Cache.get: open, json.load and the expiry test.  A file that vanished since
\* the exists() test raises in open(), which the handler catches.
CacheGetRead(p) ==
  /\ pc[p] = "get_read"
  /\ IF ~file.exists
     THEN /\ pc' = [pc EXCEPT ![p] = "get_unlink"]
          /\ UNCHANGED <<loc, hist>>
     ELSE LET r == cache_load(file.content, now)
              h == [hist EXCEPT ![p].reads = 1, ![p].read_complete = meta.complete]
          IN  IF r.unlink
              THEN /\ pc' = [pc EXCEPT ![p] = "get_unlink"]
                   /\ hist' = h
                   /\ UNCHANGED loc
              ELSE IF Truthy(r.value)
              THEN Return(p, r.value, loc, h)
              ELSE /\ pc' = [pc EXCEPT ![p] = "list"]
                   /\ hist' = h
                   /\ UNCHANGED loc
  /\ UNCHANGED <<now, files, meta, running, op>>
  /\ Step

\* Cache.get: cache_file.unlink(missing_ok=True), then `return None`
CacheGetUnlink(p) ==
  /\ pc[p] = "get_unlink"
  /\ Unlink
  /\ loc' = [q \in Procs |-> [loc[q] EXCEPT !.linked = FALSE]]
  /\ pc' = [pc EXCEPT ![p] = "list"]
  /\ UNCHANGED <<now, running, op, hist>>
  /\ Step

no_containers_never(containers) == FALSE

\* `if not containers: return []`
no_containers(containers) == containers = <<>>

\* containers = self.docker.list_containers(); `if not containers: return []`;
\* the comprehension over c.get('ID') raises on a record that is no dict.
ListContainers(p, noises) ==
  /\ pc[p] = "list"
  /\ \E outcome \in Outcomes, noise \in noises :
       LET run == QueryRun(op[p].docker_path, outcome, PsStdout(running, noise))
           containers == list_containers(run)
           h == [hist EXCEPT ![p].queries = @ + 1]
       IN  IF no_containers(containers)
           THEN Return(p, JList(<<>>), loc, h)
           ELSE IF \E i \in 1..Len(containers) : ~IsDict(containers[i])
           THEN /\ pc' = [pc EXCEPT ![p] = "raised"]
                /\ hist' = h
                /\ UNCHANGED loc
           ELSE /\ pc' = [pc EXCEPT ![p] = "inspect"]
                /\ loc' = [loc EXCEPT ![p].containers = containers]
                /\ hist' = h
  /\ UNCHANGED <<now, files, meta, running, op>>
  /\ Step

\* inspect_data = self.docker.inspect_containers(container_ids)
InspectContainers(p, noises) ==
  /\ pc[p] = "inspect"
  /\ LET ids == container_ids(loc[p].containers)
         after == IF op[p].enable_stats THEN "stats" ELSE "set_open"
     IN  IF ids = <<>>
         THEN /\ pc' = [pc EXCEPT ![p] = after]
              /\ UNCHANGED <<loc, hist>>
         ELSE \E outcome \in Outcomes, noise \in noises :
                LET run == QueryRun(op[p].docker_path, outcome, InspectStdout(ids, noise))
                    r == inspect_containers(run)
                IN  /\ hist' = [hist EXCEPT ![p].queries = @ + 1]
                    /\ IF r.raised
                       THEN /\ pc' = [pc EXCEPT ![p] = "raised"]
                            /\ UNCHANGED loc
                       ELSE /\ pc' = [pc EXCEPT ![p] = after]
                            /\ loc' = [loc EXCEPT ![p].inspected = r.items]
  /\ UNCHANGED <<now, files, meta, running, op>>
  /\ Step

\* stats_data = self.docker.get_stats(running_ids[:10]), when enable_stats
GetStats(p) ==
  /\ pc[p] = "stats"
  /\ LET ids == running_ids(loc[p].containers)
     IN  IF ids = <<>>
         THEN UNCHANGED <<loc, hist>>
         ELSE \E outcome \in Outcomes :
                /\ loc' = [loc EXCEPT ![p].stats_data =
                             get_stats(QueryRun(op[p].docker_path, outcome, StatsStdout(ids)))]
                /\ hist' = [hist EXCEPT ![p].queries = @ + 1]
  /\ pc' = [pc EXCEPT ![p] = "set_open"]
  /\ UNCHANGED <<now, files, meta, running, op>>
  /\ Step

\* The enrichment and the sort, then Cache.set: open(cache_file, 'w') creates
\* or truncates the file, and the timestamp is taken.
CacheSetOpen(p) ==
  /\ pc[p] = "set_open"
  /\ files' = [files EXCEPT ![cache_key] = [exists |-> TRUE, content |-> <<>>]]
  /\ meta' = NoMeta
  /\ LET enriched == build_catalog(loc[p].containers, loc[p].inspected, loc[p].stats_data)
     IN  loc' = [loc EXCEPT ![p] = [NoLoc EXCEPT
                   !.enriched = enriched,
                   !.buffer = JsonDump(cache_entry(now, JList(enriched))),
                   !.linked = TRUE, !.timestamp = now]]
  /\ hist' = [hist EXCEPT ![p].writes = @ + 1]
  /\ pc' = [pc EXCEPT ![p] = "set_write"]
  /\ UNCHANGED <<now, running, op>>
  /\ Step

\* Cache.set: json.dump fills the file's buffer, which is written out each
\* time it is full and when the file is closed.
CacheSetWrite(p) ==
  /\ pc[p] = "set_write"
  /\ LET toks == loc[p].buffer
         offset == loc[p].offset
         upto == IF offset + WriteChunk < Len(toks) THEN offset + WriteChunk ELSE Len(toks)
         content == IF loc[p].linked
                    THEN WriteAt(file.content, offset, SubSeq(toks, offset + 1, upto))
                    ELSE file.content
     IN  /\ files' = [files EXCEPT ![cache_key].content = content]
         /\ meta' = IF content = file.content THEN meta
                    ELSE IF content = toks
                    THEN [complete |-> TRUE, timestamp |-> loc[p].timestamp,
                          data |-> JList(loc[p].enriched)]
                    ELSE NoMeta
         /\ IF upto = Len(toks)
            THEN Return(p, JList(loc[p].enriched),
                        [loc EXCEPT ![p].linked = FALSE, ![p].enriched = <<>>,
                                    ![p].buffer = <<>>, ![p].offset = 0,
                                    ![p].timestamp = 0], hist)
            ELSE /\ loc' = [loc EXCEPT ![p].offset = upto]
                 /\ UNCHANGED <<pc, hist>>
  /\ UNCHANGED <<now, running, op>>
  /\ Step

\* The process ends: normally, or (main's `except Exception`) on an exception.
Finish(p) ==
  /\ pc[p] \in {"done", "raised"}
  /\ pc' = [pc EXCEPT ![p] = "idle"]
  /\ op' = [op EXCEPT ![p] = NoOp]
  /\ loc' = [loc EXCEPT ![p] = NoLoc]
  /\ hist' = [hist EXCEPT ![p] = NoHist]
  /\ UNCHANGED <<now, files, meta, running>>
  /\ Step

(***************************************************************************)
(* dispatcher.py: ActionDispatcher                                         *)
(***************************************************************************)
\* The identifiers and projects an action can name (the 'id' and 'project' of
\* an Alfred item's argument; None when the argument lacks the field).
ActionIds == {JNull} \cup {JStr(Population[i].short_id) : i \in Containers}
ActionProjects == {JNull, JStr(<<"0", "1", "-", "s", "h", "o", "p">>), JStr(<<"s", "h", "o", "p">>)}
ProjectActionTypes == {"start_project", "stop_project", "restart_project"}

\* The container a docker command names by an identifier (0: none).
Target(id) ==
  LET hits == {i \in Containers : id /= <<>> /\ StartsWith(Population[i].full_id, id)}
  IN  IF hits = {} THEN 0 ELSE CHOOSE i \in hits : \A j \in hits : i <= j

\* The runtime after `docker <command> <id>` took effect.
Effect(status, command, id) ==
  IF Target(id) = 0 THEN status
  ELSE [status EXCEPT ![Target(id)] = (command /= "stop")]

\* One mutating _run_command([command, id]): success is (True, ...).  A command
\* that exits non-zero changed nothing; one that timed out may have.
Mutate(p, command, id, outcome, took_effect, success) ==
  /\ success = (op[p].docker_path /\ outcome = "ok" /\ Target(id) /= 0)
  /\ outcome = "ok" => (Target(id) /= 0 /\ (took_effect = op[p].docker_path))
  /\ outcome = "nonzero" => ~took_effect
  /\ took_effect => op[p].docker_path
  /\ running' = IF took_effect THEN Effect(running, command, id) ELSE running
  /\ hist' = [hist EXCEPT ![p].issued = IF op[p].docker_path THEN 1 ELSE @]

\* run_action with action 'start', 'stop' or 'restart': `if not container_id`
\* shows an error and returns.
StartAction(p, Ids, DockerPath) ==
  /\ p \in Dispatchers
  /\ pc[p] = "idle"
  /\ runs[p] < MaxRuns
  /\ runs' = [runs EXCEPT ![p] = @ + 1]
  /\ \E kind \in {"start", "stop", "restart"}, id \in Ids, docker_path \in DockerPath :
       /\ op' = [op EXCEPT ![p] = [NoOp EXCEPT !.kind = kind, !.id = id,
                                                !.docker_path = docker_path]]
       /\ pc' = [pc EXCEPT ![p] = IF Truthy(id) THEN "command" ELSE "done"]
  /\ UNCHANGED <<now, files, meta, running, loc, hist>>
  /\ SysFrame

\* _start_container / _stop_container / _restart_container: the command, and
\* the cache cleared only `if success`.
RunCommand(p) ==
  /\ pc[p] = "command"
  /\ \E outcome \in Outcomes, took_effect \in BOOLEAN, success \in BOOLEAN :
       /\ Mutate(p, op[p].kind, op[p].id.s, outcome, took_effect, success)
       /\ pc' = [pc EXCEPT ![p] = IF success THEN "clear" ELSE "done"]
  /\ UNCHANGED <<now, files, meta, op, loc>>
  /\ Step

\* _clear_cache: (cache_dir / 'containers.json').unlink(missing_ok=True)
ClearCache(p) ==
  /\ pc[p] = "clear"
  /\ Unlink
  /\ loc' = [q \in Procs |-> [loc[q] EXCEPT !.linked = FALSE]]
  /\ hist' = [hist EXCEPT ![p].cleared = TRUE]
  /\ pc' = [pc EXCEPT ![p] = "done"]
  /\ UNCHANGED <<now, running, op>>
  /\ Step

\* _handle_project_action: `if not project` shows an error and returns;
\* otherwise self.manager.get_project_containers(project) refreshes.
StartProject(p, Projects, EnableStats, DockerPath) ==
  /\ p \in Dispatchers
  /\ pc[p] = "idle"
  /\ runs[p] < MaxRuns
  /\ runs' = [runs EXCEPT ![p] = @ + 1]
  /\ \E project \in Projects, action_type \in ProjectActionTypes,
        enable_stats \in EnableStats, docker_path \in DockerPath :
       /\ op' = [op EXCEPT ![p] = [NoOp EXCEPT !.kind = "project", !.project = project,
                                                !.action_type = action_type,
                                                !.use_cache = TRUE,
                                                !.enable_stats = enable_stats,
                                                !.docker_path = docker_path]]
       /\ pc' = [pc EXCEPT ![p] = IF Truthy(project) THEN "get_exists" ELSE "done"]
  /\ UNCHANGED <<now, files, meta, running, loc, hist>>
  /\ SysFrame

\* get_project_containers: [c for c in all_containers if c.get('project') == project]
RECURSIVE get_project_containers(_, _)
get_project_containers(all_containers, project) ==
  IF all_containers = <<>> THEN <<>>
  ELSE (IF DictGet(Head(all_containers), <<"p", "r", "o", "j", "e", "c", "t">>, JNull) = project
        THEN <<Head(all_containers)>> ELSE <<>>)
       \o get_project_containers(Tail(all_containers), project)

\* [c['id'] for c in project_containers if (c['status'] == 'running') == want_running]
RECURSIVE ids_by_status(_, _)
ids_by_status(project_containers, want_running) ==
  IF project_containers = <<>> THEN <<>>
  ELSE LET c == Head(project_containers)
       IN  (IF (c.d[<<"s", "t", "a", "t", "u", "s">>] = JStr(<<"r", "u", "n", "n", "i", "n", "g">>)) = want_running
            THEN <<c.d[<<"i", "d">>].s>> ELSE <<>>)
           \o ids_by_status(Tail(project_containers), want_running)

batch_ids_whatever_status(project_containers, action_type) ==
  ids_by_status(project_containers, TRUE) \o ids_by_status(project_containers, FALSE)

\* The identifiers _handle_project_action hands to _batch_action (none: it
\* shows a notification or an error and returns).
batch_ids(project_containers, action_type) ==
  IF action_type = "start_project" THEN ids_by_status(project_containers, FALSE)
  ELSE IF action_type = "stop_project" THEN ids_by_status(project_containers, TRUE)
  ELSE <<>>

ProjectSelect(p) ==
  /\ pc[p] = "project_select"
  /\ LET project_containers == get_project_containers(loc[p].result.l, op[p].project)
         ids == batch_ids(project_containers, op[p].action_type)
     IN  /\ loc' = [loc EXCEPT ![p].todo = ids]
         /\ pc' = [pc EXCEPT ![p] = IF ids = <<>> THEN "done" ELSE "batch"]
  /\ UNCHANGED <<now, files, meta, running, op, hist>>
  /\ Step

\* _batch_action: one command per identifier, then _clear_cache whatever the
\* number of successes.
BatchCommand(p) ==
  /\ pc[p] = "batch"
  /\ \E outcome \in Outcomes, took_effect \in BOOLEAN, success \in BOOLEAN :
       Mutate(p, IF op[p].action_type = "start_project" THEN "start" ELSE "stop",
              Head(loc[p].todo), outcome, took_effect, success)
  /\ loc' = [loc EXCEPT ![p].todo = Tail(@)]
  /\ pc' = [pc EXCEPT ![p] = IF Len(loc[p].todo) = 1 THEN "clear" ELSE "batch"]
  /\ UNCHANGED <<now, files, meta, op>>
  /\ Step

\* Time passes.
Tick ==
  /\ now < Epoch + MaxTicks * TickMs
  /\ now' = now + TickMs
  /\ UNCHANGED <<files, meta, running, pc, op, loc, hist>>
  /\ Step

(***************************************************************************)
(* The workflow as Alfred runs it: a picker query (script_filter.py calls  *)
(* get_all_containers() once the docker binary is found) overlapping an    *)
(* action of dispatcher.py.                                                *)
(***************************************************************************)
Next ==
  \/ \E p \in Procs :
       \/ StartRefresh(p, {TRUE}, {FALSE}, {TRUE})
       \/ CacheGetExists(p)
       \/ CacheGetRead(p)
       \/ CacheGetUnlink(p)
       \/ ListContainers(p, {"none"})
       \/ InspectContainers(p, {"none"})
       \/ CacheSetOpen(p)
       \/ CacheSetWrite(p)
       \/ Finish(p)
       \/ StartAction(p, ActionIds, {TRUE})
       \/ RunCommand(p)
       \/ ClearCache(p)
       \/ StartProject(p, ActionProjects, {FALSE}, {TRUE})
       \/ ProjectSelect(p)
       \/ BatchCommand(p)
  \/ Tick

Spec == Init /\ [][Next]_vars

(***************************************************************************)
(* One invocation at a time: every option of a refresh (use_cache, stats   *)
(* collection, a missing docker binary), every outcome and every kind of   *)
(* output line of the runtime, every action of the dispatcher.             *)
(***************************************************************************)
Alone(p) == \A q \in Procs \ {p} : pc[q] = "idle"

NextSeq ==
  \/ \E p \in Procs :
       \/ Alone(p) /\ StartRefresh(p, BOOLEAN, BOOLEAN, BOOLEAN)
       \/ CacheGetExists(p)
       \/ CacheGetRead(p)
       \/ CacheGetUnlink(p)
       \/ ListContainers(p, Noise)
       \/ InspectContainers(p, Noise)
       \/ GetStats(p)
       \/ CacheSetOpen(p)
       \/ CacheSetWrite(p)
       \/ Finish(p)
       \/ Alone(p) /\ StartAction(p, ActionIds, BOOLEAN)
       \/ RunCommand(p)
       \/ ClearCache(p)
       \/ Alone(p) /\ StartProject(p, ActionProjects, BOOLEAN, BOOLEAN)
       \/ ProjectSelect(p)
       \/ BatchCommand(p)
  \/ Tick

SpecSeq == Init /\ [][NextSeq]_vars

(***************************************************************************)
(* Properties of a refresh and of the dispatcher's actions                 *)
(***************************************************************************)
Returned(p) == pc[p] \in {"done", "project_select"} /\ op[p].kind \in {"refresh", "project"}

\* 'containers.json' holds a document with 'data', and data is among them.
HoldsData(them) ==
  LET e == JsonLoad(file.content)
  IN  /\ file.exists /\ e.ok /\ IsDict(e.v) /\ HasKey(e.v, <<"d", "a", "t", "a">>)
      /\ DictGet(e.v, <<"d", "a", "t", "a">>, JNull) \in them

\* C1: get_all_containers never propagates an exception, whatever the runtime
\* answers (binary missing, non-zero exit, timeout, lines that are valid JSON
\* but no object or an object without 'Id') and whatever the cache file holds:
\* no invocation ever reaches the state in which an exception left it.
C1_RefreshNeverRaises == \A p \in Procs : pc[p] /= "raised"

\* C2: when an action of the dispatcher that issued a start, stop or restart
\* command to the runtime has finished, 'containers.json' does not exist,
\* whether the command reported success, failure or a timeout.
C2_CacheDeletedAfterIssuedCommand ==
  \A p \in Dispatchers :
    (pc[p] = "done" /\ hist[p].issued > 0) => ~file.exists

\* C3: a Cache.get that overlaps a Cache.set of another process reads either
\* the complete old or the complete new document, never an empty or partly
\* written file.
C3_ReaderSeesCompleteContent == \A p \in Procs : hist[p].read_complete

\* C4: the cache never holds an empty sequence; a write is only ever started
\* with a non-empty enriched list; and the step in which list_containers
\* returned nothing returns the empty list and leaves the cache directory as
\* it was.
C4_NoEmptyEntry ==
  /\ ~HoldsData({JList(<<>>)})
  /\ \A p \in Procs : pc[p] = "set_write" => loc[p].enriched /= <<>>
C4_EmptyListStep ==
  \A p \in Procs :
    (pc[p] = "list" /\ pc'[p] \notin {"list", "inspect", "raised"})
      => /\ files' = files
         /\ loc'[p].result = JList(<<>>)
         /\ hist'[p].writes = hist[p].writes
C4_EmptyListNeverCached == []C4_NoEmptyEntry /\ [][C4_EmptyListStep]_vars

\* A refresh returned the empty list while the cache held a complete entry.
C4_Witness ==
  \E p \in Procs :
    /\ Returned(p) /\ hist[p].queries = 1 /\ loc[p].result = JList(<<>>)
    /\ meta.complete /\ HoldsData({meta.data})

\* C7: a refresh with use_cache that reads an entry written less than
\* cache_ttl_ms ago returns the sequence of that entry in that very step,
\* having queried the runtime and written the cache not at all; a refresh
\* without use_cache never reads the cache and has called list_containers by
\* the time it ends.
C7_HitStep ==
  \A p \in Procs :
    (/\ pc[p] = "get_read" /\ pc'[p] /= "get_read"
     /\ file.exists /\ meta.complete /\ now - meta.timestamp <= cache_ttl_ms)
      => /\ Returned(p)'
         /\ loc'[p].result = meta.data
         /\ hist'[p].queries = 0 /\ hist'[p].writes = 0
         /\ files' = files
C7_NoCacheUse ==
  \A p \in Procs :
    (op[p].kind = "refresh" /\ ~op[p].use_cache)
      => /\ hist[p].reads = 0
         /\ pc[p] \in {"done", "raised"} => hist[p].queries >= 1
C7_CacheHitSkipsRuntime == []C7_NoCacheUse /\ [][C7_HitStep]_vars

\* A picker's refresh ended on a cache hit.
C7_Witness ==
  \E p \in Pickers :
    /\ pc[p] = "done" /\ op[p].use_cache /\ hist[p].reads = 1 /\ hist[p].queries = 0
    /\ IsList(loc[p].result) /\ loc[p].result /= JList(<<>>)

(***************************************************************************)
(* The classification on its own: is_web_service over containers put       *)
(* together from names, port columns, images, compose labels and inspect   *)
(* port keys.  Each piece says what it is (which keywords its text holds,  *)
(* which ports it names on which side), so that a property can speak of    *)
(* the container without asking the code under test.                       *)
(***************************************************************************)
\* Names of `docker ps`; neg / pos: the stripped lower-cased name contains a
\* negative / a positive keyword.
SampleNames ==
  { [text |-> <<"/", "t", "e", "s", "t", "-", "a", "p", "p">>,    neg |-> FALSE, pos |-> FALSE],
    [text |-> <<"/", "m", "y", "-", "w", "e", "b", "-", "a", "p", "p">>,  neg |-> FALSE, pos |-> TRUE],
    [text |-> <<"/", "W", "e", "b", "-", "D", "B">>,      neg |-> TRUE,  pos |-> TRUE],
    [text |-> <<"/", "r", "e", "d", "i", "s">>,       neg |-> TRUE,  pos |-> FALSE],
    [text |-> <<>>,             neg |-> FALSE, pos |-> FALSE] }

\* 'Ports' columns of `docker ps`; host / target: the ports named before /
\* after '->' (an unmapped port is a target); ranged: the ports inside a range.
SamplePorts ==
  { [text |-> <<>>,                                          host |-> {},     target |-> {},     ranged |-> {}],
    [text |-> <<"5", "4", "3", "2", "/", "t", "c", "p">>,                                  host |-> {},     target |-> {5432}, ranged |-> {}],
    [text |-> <<"8", "0", "8", "0", "/", "t", "c", "p">>,                                  host |-> {},     target |-> {8080}, ranged |-> {}],
    [text |-> <<"0", ".", "0", ".", "0", ".", "0", ":", "8", "0", "8", "0", "-", ">", "9", "0", "0", "0", "/", "t", "c", "p">>,                    host |-> {8080}, target |-> {9000}, ranged |-> {}],
    [text |-> <<"0", ".", "0", ".", "0", ".", "0", ":", "9", "0", "0", "0", "-", ">", "8", "0", "8", "0", "/", "t", "c", "p">>,                    host |-> {9000}, target |-> {8080}, ranged |-> {}],
    [text |-> <<"0", ".", "0", ".", "0", ".", "0", ":", "8", "4", "4", "3", "-", ">", "4", "4", "3", "/", "t", "c", "p", ",", " ", ":", ":", ":", "8", "4", "4", "3", "-", ">", "4", "4", "3", "/", "t", "c", "p">>,   host |-> {8443}, target |-> {443},  ranged |-> {}],
    [text |-> <<"0", ".", "0", ".", "0", ".", "0", ":", "4", "4", "3", "-", ">", "8", "4", "4", "3", "/", "t", "c", "p", ",", " ", "9", "0", "0", "0", "/", "u", "d", "p">>,           host |-> {443},  target |-> {8443, 9000}, ranged |-> {}],
    [text |-> <<"8", "0", "8", "0", "-", "8", "0", "8", "1", "/", "t", "c", "p">>,                             host |-> {},     target |-> {},     ranged |-> {8080, 8081}] }

\* Images; web: the lower-cased image contains a web image keyword.
SampleImages ==
  { [text |-> <<"p", "o", "s", "t", "g", "r", "e", "s", ":", "1", "5">>,  web |-> FALSE],
    [text |-> <<"N", "g", "i", "n", "x", ":", "a", "l", "p", "i", "n", "e">>, web |-> TRUE],
    [text |-> <<>>,             web |-> FALSE] }

\* Compose labels of `docker inspect` (present: the inspect record has labels).
SampleLabels ==
  { [present |-> FALSE, service |-> <<>>,       project |-> <<>>,
     service_neg |-> FALSE, service_pos |-> FALSE, project_neg |-> FALSE, project_pos |-> FALSE],
    [present |-> TRUE,  service |-> <<"d", "b">>,     project |-> <<"f", "r", "o", "n", "t", "e", "n", "d">>,
     service_neg |-> TRUE,  service_pos |-> FALSE, project_neg |-> FALSE, project_pos |-> TRUE],
    [present |-> TRUE,  service |-> <<"w", "e", "b", "_", "d", "b">>, project |-> <<"0", "1", "-", "s", "h", "o", "p">>,
     service_neg |-> TRUE,  service_pos |-> TRUE,  project_neg |-> FALSE, project_pos |-> FALSE],
    [present |-> TRUE,  service |-> <<"a", "p", "i">>,    project |-> <<"j", "o", "b", "s", "-", "u", "i">>,
     service_neg |-> FALSE, service_pos |-> FALSE, project_neg |-> TRUE,  project_pos |-> TRUE] }

\* Keys of Config.ExposedPorts and of NetworkSettings.Ports (none: the dict is
\* missing); port: the ports the key names.
SampleKeys ==
  { [text |-> <<>>,         port |-> {}],
    [text |-> <<"8", "0", "8", "0", "/", "t", "c", "p">>, port |-> {8080}],
    [text |-> <<"4", "4", "3", "/", "t", "c", "p">>,  port |-> {443}],
    [text |-> <<"6", "3", "7", "9", "/", "t", "c", "p">>, port |-> {6379}] }

Samples ==
  [name : SampleNames, ports : SamplePorts, image : SampleImages, labels : SampleLabels,
   exposed : SampleKeys, network : SampleKeys]

\* The record of `docker ps` and the record of `docker inspect` of a sample.
sample_container(s) ==
  MkDict(<< <<<<"I", "D">>, JStr(<<"4", "f", "3", "c">>)>>, <<<<"N", "a", "m", "e", "s">>, JStr(s.name.text)>>,
            <<<<"I", "m", "a", "g", "e">>, JStr(s.image.text)>>, <<<<"P", "o", "r", "t", "s">>, JStr(s.ports.text)>>,
            <<<<"S", "t", "a", "t", "u", "s">>, JStr(<<"U", "p", " ", "2", " ", "h", "o", "u", "r", "s">>)>> >>)

sample_port_dict(key) ==
  IF key.text = <<>> THEN JNull ELSE MkDict(<< <<key.text, EmptyDict>> >>)

sample_inspect(s) ==
  MkDict(<< <<<<"I", "d">>, JStr(<<"4", "f", "3", "c", "2", "d", "1", "e">>)>>,
            <<<<"C", "o", "n", "f", "i", "g">>, MkDict(<< <<<<"L", "a", "b", "e", "l", "s">>, IF s.labels.present
                                                THEN ComposeLabels(s.labels.project, s.labels.service)
                                                ELSE JNull>>,
                                   <<<<"E", "x", "p", "o", "s", "e", "d", "P", "o", "r", "t", "s">>, sample_port_dict(s.exposed)>> >>)>>,
            <<<<"N", "e", "t", "w", "o", "r", "k", "S", "e", "t", "t", "i", "n", "g", "s">>, MkDict(<< <<<<"P", "o", "r", "t", "s">>, sample_port_dict(s.network)>> >>)>> >>)

ClassifyFrame == UNCHANGED <<now, files, meta, running, pc, op, loc, hist, runs, last,
                             unsorted, sorted>>

ChooseSample ==
  /\ sample = JNull
  /\ \E s \in Samples : sample' = s
  /\ out' = JNull
  /\ ClassifyFrame

Classify ==
  /\ sample /= JNull /\ out = JNull
  /\ out' = JBool(is_web_service(sample_container(sample), sample_inspect(sample)))
  /\ UNCHANGED sample
  /\ ClassifyFrame

NextClassify == ChooseSample \/ Classify

SpecClassify == Init /\ [][NextClassify]_vars

Classified == sample /= JNull /\ out /= JNull

\* What the pieces of the sample say about it.
SampleHasNegativeCandidate ==
  \/ sample.name.text /= <<>> /\ sample.name.neg
  \/ sample.labels.present /\ (sample.labels.service_neg \/ sample.labels.project_neg)
SampleHasPurePositiveCandidate ==
  \/ sample.name.text /= <<>> /\ sample.name.pos /\ ~sample.name.neg
  \/ sample.labels.present /\ sample.labels.service_pos /\ ~sample.labels.service_neg
  \/ sample.labels.present /\ sample.labels.project_pos /\ ~sample.labels.project_neg
SampleHasMixedCandidate ==
  \/ sample.name.text /= <<>> /\ sample.name.pos /\ sample.name.neg
  \/ sample.labels.present /\ sample.labels.service_pos /\ sample.labels.service_neg
  \/ sample.labels.present /\ sample.labels.project_pos /\ sample.labels.project_neg
SampleContainerPorts == sample.ports.target \cup sample.exposed.port \cup sample.network.port
SampleNamedPorts == SampleContainerPorts \cup sample.ports.host \cup sample.ports.ranged

C10_Port8080Or443MeansTrue ==
  (Classified /\ SampleNamedPorts \cap {8080, 443} /= {}) => out = JBool(TRUE)

\* C10 (amended): is_web_service is true, whatever the name, labels and image,
\* for every container in which 8080 or 443 is the number before '/' of the
\* container side of a port mapping (after the last '->', or the whole token
\* when unmapped), of an ExposedPorts key or of a NetworkSettings.Ports key.
C10_ContainerPort8080Or443MeansTrue ==
  (Classified /\ SampleContainerPorts \cap {8080, 443} /= {}) => out = JBool(TRUE)

\* A database by name, labels and image was classified as a web service for
\* its container port.
C10_Witness ==
  /\ Classified /\ SampleContainerPorts \cap {8080, 443} /= {}
  /\ sample.name.neg /\ ~SampleHasPurePositiveCandidate /\ ~sample.image.web
  /\ out = JBool(TRUE)

SampleCatalog ==
  LET status == [i \in Containers |-> i = 1]
      containers == list_containers(QueryRun(TRUE, "ok", PsStdout(status, "none")))
      inspected == inspect_containers(
                     QueryRun(TRUE, "ok", InspectStdout(container_ids(containers), "none")))
  IN  JList(build_catalog(containers, inspected.items, EmptyDict))

\* Values of the JSON types, which are the values a refresh stores.
CacheValues ==
  { SampleCatalog, JList(<<>>), JNull,
    MkDict(<< <<<<"t", "i", "m", "e", "s", "t", "a", "m", "p">>, JNum(0)>>, <<<<"d", "a", "t", "a">>, JList(<<JBool(TRUE), JNum(12)>>)>> >>) }

\* File contents no Cache.set wrote, each with what is wrong with it.
DamagedContents ==
  { [kind |-> "not_json",      content |-> <<>>],
    [kind |-> "not_json",      content |-> SubSeq(JsonDump(cache_entry(Epoch, SampleCatalog)), 1, 9)],
    [kind |-> "not_object",    content |-> JsonDump(JList(<<JNum(Epoch)>>))],
    [kind |-> "no_timestamp",  content |-> JsonDump(MkDict(<< <<<<"d", "a", "t", "a">>, JStr(<<"u", "p">>)>> >>))],
    [kind |-> "bad_timestamp", content |-> JsonDump(MkDict(<< <<<<"t", "i", "m", "e", "s", "t", "a", "m", "p">>, JStr(<<"n", "o", "w">>)>>,
                                                              <<<<"d", "a", "t", "a">>, JStr(<<"u", "p">>)>> >>))] }
CorruptKinds == {"not_json", "not_object", "no_timestamp", "bad_timestamp"}

\* The time that can pass between two operations.
Delays == {cache_ttl_ms - 1, cache_ttl_ms, cache_ttl_ms + 1}

CacheFrame == UNCHANGED <<meta, running, pc, op, loc, hist, runs, sample, out,
                          unsorted, sorted>>

\* Cache.set(key, data): open(cache_file, 'w') and json.dump of the entry,
\* with no other process at the file.
CacheSet ==
  /\ last.ops < MaxCacheOps
  /\ \E key \in CacheKeys, data \in CacheValues :
       /\ files' = [files EXCEPT ![key] =
                      [exists |-> TRUE, content |-> JsonDump(cache_entry(now, data))]]
       /\ last' = [last EXCEPT !.op = "set", !.key = key, !.time = now, !.ret = JNull,
                               !.before = last.stored[key],
                               !.stored[key] = [kind |-> "entry", timestamp |-> now,
                                                value |-> data],
                               !.ops = @ + 1]
  /\ UNCHANGED now
  /\ CacheFrame

\* Cache.get(key)
CacheGet ==
  /\ last.ops < MaxCacheOps
  /\ \E key \in CacheKeys :
       LET r == IF files[key].exists THEN cache_load(files[key].content, now)
                ELSE [value |-> JNull, unlink |-> FALSE]
       IN  /\ files' = IF r.unlink THEN [files EXCEPT ![key] = AbsentFile] ELSE files
           /\ last' = [last EXCEPT !.op = "get", !.key = key, !.time = now, !.ret = r.value,
                                   !.before = last.stored[key],
                                   !.stored[key] = IF r.unlink THEN NoEntry ELSE @,
                                   !.ops = @ + 1]
  /\ UNCHANGED now
  /\ CacheFrame

\* Something else left a damaged file under a key.
Damage ==
  /\ last.ops < MaxCacheOps
  /\ \E key \in CacheKeys, d \in DamagedContents :
       /\ files' = [files EXCEPT ![key] = [exists |-> TRUE, content |-> d.content]]
       /\ last' = [last EXCEPT !.op = "damage", !.key = key, !.time = now, !.ret = JNull,
                               !.before = last.stored[key],
                               !.stored[key] = [kind |-> d.kind, timestamp |-> 0,
                                                value |-> JNull],
                               !.ops = @ + 1]
  /\ UNCHANGED now
  /\ CacheFrame

Elapse ==
  /\ last.elapses < MaxElapses
  /\ \E d \in Delays : now' = now + d
  /\ last' = [last EXCEPT !.elapses = @ + 1]
  /\ UNCHANGED files
  /\ CacheFrame

NextCache == CacheSet \/ CacheGet \/ Damage \/ Elapse

SpecCache == Init /\ [][NextCache]_vars

\* The latest operation was a Cache.get of a key whose file held ...
GotEntry == last.op = "get" /\ last.before.kind = "entry"
GotCorrupt == last.op = "get" /\ last.before.kind \in CorruptKinds
EntryAge == last.time - last.before.timestamp
EntryFile == [exists |-> TRUE,
              content |-> JsonDump(cache_entry(last.before.timestamp, last.before.value))]

\* C5: Cache.get(k) after Cache.set(k, v), with less than cache_ttl_ms between
\* the two and nothing else written to the file, returns v.
C5_RoundTrip == (GotEntry /\ EntryAge < cache_ttl_ms) => last.ret = last.before.value

\* The catalog came back from the cache some time after it was stored.
C5_Witness ==
  /\ GotEntry /\ EntryAge > 0 /\ EntryAge < cache_ttl_ms
  /\ last.before.value = SampleCatalog /\ last.ret = SampleCatalog

\* C6: Cache.get(k) returns None and leaves no file for k when the file held
\* an entry older than cache_ttl_ms or a damaged document (no JSON, no object,
\* no timestamp); it returns the value of an entry that is not older than
\* cache_ttl_ms and leaves the file as it was.
C6_StaleOrCorruptIsRemoved ==
  /\ (GotCorrupt \/ (GotEntry /\ EntryAge > cache_ttl_ms))
       => (last.ret = JNull /\ ~files[last.key].exists)
  /\ (GotEntry /\ EntryAge <= cache_ttl_ms)
       => (last.ret = last.before.value /\ files[last.key] = EntryFile)

\* An entry older than the TTL was asked for: nothing returned, no file left.
C6_Witness ==
  /\ GotEntry /\ EntryAge > cache_ttl_ms /\ last.before.value = SampleCatalog
  /\ last.ret = JNull /\ ~files[last.key].exists

(***************************************************************************)
(* The sort on its own: sort_enriched over lists of enriched containers.   *)
(* Each name says where it stands in case-insensitive order, so that the   *)
(* order of the result can be judged without the code's comparison.        *)
(***************************************************************************)
SortNames ==
  { [text |-> <<"a", "p", "i">>, rank |-> 1],
    [text |-> <<"W", "e", "b">>, rank |-> 2],
    [text |-> <<"w", "e", "b">>, rank |-> 2],
    [text |-> <<"Z", "o", "o">>, rank |-> 3] }

SortEntries == [web : BOOLEAN, status : {"running", "stopped"}, name : SortNames]

SortLists == UNION { [1..n -> SortEntries] : n \in 0..MaxSortLen }

\* The enriched container of an entry; its id is its place in the list.
sort_entry(e, i) ==
  MkDict(<< <<<<"i", "d">>, JStr(Digits(i))>>,
            <<<<"d", "i", "s", "p", "l", "a", "y", "_", "n", "a", "m", "e">>, JStr(e.name.text)>>,
            <<<<"s", "t", "a", "t", "u", "s">>, JStr(IF e.status = "running" THEN <<"r", "u", "n", "n", "i", "n", "g">> ELSE <<"s", "t", "o", "p", "p", "e", "d">>)>>,
            <<<<"i", "s", "_", "w", "e", "b", "_", "s", "e", "r", "v", "i", "c", "e">>, JBool(e.web)>> >>)

SortFrame == UNCHANGED <<now, files, meta, running, pc, op, loc, hist, runs, last,
                         sample, out>>

ChooseList ==
  /\ ~unsorted.given
  /\ \E l \in SortLists : unsorted' = [given |-> TRUE, l |-> l]
  /\ UNCHANGED sorted
  /\ SortFrame

Sort ==
  /\ unsorted.given /\ ~sorted.given
  /\ sorted' = [given |-> TRUE,
                l |-> sort_enriched([i \in 1..Len(unsorted.l) |->
                                       sort_entry(unsorted.l[i], i)])]
  /\ UNCHANGED unsorted
  /\ SortFrame

NextSort == ChooseList \/ Sort

SpecSort == Init /\ [][NextSort]_vars

Sorted == unsorted.given /\ sorted.given

\* The place in the input of the j-th container of the result, and what the
\* input says of it.
Origin(j) == ParseInt(sorted.l[j].d[<<"i", "d">>].s)
Rank(j) ==
  LET e == unsorted.l[Origin(j)]
  IN  (IF e.web THEN 0 ELSE 100) + (IF e.status = "running" THEN 0 ELSE 10) + e.name.rank

\* C8: the result holds the containers of the input, each once, web services
\* before the others, within each running before not running, within those
\* in case-insensitive order of display_name, and containers equal in all
\* three in the order of the input.
C8_StableSortByKey ==
  Sorted =>
    /\ Len(sorted.l) = Len(unsorted.l)
    /\ \A j \in 1..Len(sorted.l) :
         /\ Origin(j) \in 1..Len(unsorted.l)
         /\ sorted.l[j] = sort_entry(unsorted.l[Origin(j)], Origin(j))
    /\ \A i, j \in 1..Len(sorted.l) :
         i < j => \/ Rank(i) < Rank(j)
                  \/ Rank(i) = Rank(j) /\ Origin(i) < Origin(j)

\* A list that was out of order in all three parts of the key, with two
\* containers equal in the key, was sorted.
C8_Witness ==
  /\ Sorted /\ Len(unsorted.l) = 3
  /\ ~unsorted.l[1].web /\ unsorted.l[2].web /\ unsorted.l[3].web
  /\ unsorted.l[2].name.text = <<"w", "e", "b">> /\ unsorted.l[3].name.text = <<"W", "e", "b">>
  /\ unsorted.l[2].status = unsorted.l[3].status
  /\ Origin(1) = 2 /\ Origin(2) = 3 /\ Origin(3) = 1

(***************************************************************************)
(* The enrichment on its own: derive_url and _enrich_container over records *)
(* of `docker ps` and `docker inspect` put together from identifiers,       *)
(* names, status texts, images, compose labels and health states.  Each     *)
(* piece says what it is (its stripped name, its first twelve characters,   *)
(* its cleaned project, the status it stands for), so that a property can   *)
(* speak of the record without asking the code under test.                  *)
(***************************************************************************)
\* 'ID' of `docker ps` (present: the record has the key); shown: its first
\* twelve characters.
RawIds ==
  { [present |-> FALSE, text |-> <<>>,                 shown |-> <<>>],
    [present |-> TRUE,  text |-> <<>>,                 shown |-> <<>>],
    [present |-> TRUE,  text |-> <<"9", "b", "8", "c", "7", "d", "6", "e", "5", "f", "4", "a">>,     shown |-> <<"9", "b", "8", "c", "7", "d", "6", "e", "5", "f", "4", "a">>],
    [present |-> TRUE,  text |-> <<"4", "f", "3", "c", "2", "d", "1", "e", "9", "0", "a", "1", "c", "0", "d", "e">>, shown |-> <<"4", "f", "3", "c", "2", "d", "1", "e", "9", "0", "a", "1">>] }

\* 'Names' of `docker ps`; stripped: the name without its leading '/'; hint:
\* the name holds a positive and no negative keyword.
RawNames ==
  { [present |-> FALSE, text |-> <<>>,          stripped |-> <<>>,         hint |-> FALSE],
    [present |-> TRUE,  text |-> <<"/">>,         stripped |-> <<>>,         hint |-> FALSE],
    [present |-> TRUE,  text |-> <<"/", "t", "e", "s", "t", "-", "a", "p", "p">>, stripped |-> <<"t", "e", "s", "t", "-", "a", "p", "p">>, hint |-> FALSE],
    [present |-> TRUE,  text |-> <<"/", "m", "y", "-", "w", "e", "b", "-", "1">>, stripped |-> <<"m", "y", "-", "w", "e", "b", "-", "1">>, hint |-> TRUE] }

\* 'Status' of `docker ps`; stands_for: the state the text describes, by the
\* words up and exited.
RawStatuses ==
  { [present |-> FALSE, text |-> <<>>,                             stands_for |-> <<"u", "n", "k", "n", "o", "w", "n">>],
    [present |-> TRUE,  text |-> <<"U", "p", " ", "2", " ", "h", "o", "u", "r", "s">>,                   stands_for |-> <<"r", "u", "n", "n", "i", "n", "g">>],
    [present |-> TRUE,  text |-> <<"U", "P", " ", "5", " ", "M", "I", "N", "U", "T", "E", "S", " ", "(", "P", "A", "U", "S", "E", "D", ")">>,        stands_for |-> <<"r", "u", "n", "n", "i", "n", "g">>],
    [present |-> TRUE,  text |-> <<"E", "x", "i", "t", "e", "d", " ", "(", "0", ")", " ", "3", " ", "d", "a", "y", "s", " ", "a", "g", "o">>,        stands_for |-> <<"s", "t", "o", "p", "p", "e", "d">>],
    [present |-> TRUE,  text |-> <<"C", "r", "e", "a", "t", "e", "d">>,                      stands_for |-> <<"u", "n", "k", "n", "o", "w", "n">>],
    [present |-> TRUE,  text |-> <<"R", "e", "s", "t", "a", "r", "t", "i", "n", "g", " ", "(", "1", ")", " ", "4", " ", "s", "e", "c", "o", "n", "d", "s", " ", "a", "g", "o">>, stands_for |-> <<"u", "n", "k", "n", "o", "w", "n">>] }

\* 'Image' of `docker ps`; web: the image holds a web image keyword.
RawImages ==
  { [text |-> <<"n", "g", "i", "n", "x", ":", "1", ".", "2", "5">>, web |-> TRUE],
    [text |-> <<"b", "u", "s", "y", "b", "o", "x">>,    web |-> FALSE] }

\* Config.Labels of `docker inspect`.  config: "none" is a Config without
\* Labels, "null" a null Labels, "dict" a dict with the labels that has_project
\* and has_service name; cleaned: the project without numeric prefix, with
\* separators as single blanks; hint: a label holds a positive and no negative
\* keyword.
RawLabels ==
  { [config |-> "none", has_project |-> FALSE, project |-> <<>>, has_service |-> FALSE, service |-> <<>>,
     cleaned |-> <<>>, hint |-> FALSE],
    [config |-> "null", has_project |-> FALSE, project |-> <<>>, has_service |-> FALSE, service |-> <<>>,
     cleaned |-> <<>>, hint |-> FALSE],
    [config |-> "dict", has_project |-> TRUE, project |-> <<"0", "0", "8", "9", "-", "d", "r", "a", "m", "d", "e", "a", "l", "s">>, has_service |-> TRUE, service |-> <<"w", "e", "b">>,
     cleaned |-> <<"d", "r", "a", "m", "d", "e", "a", "l", "s">>, hint |-> TRUE],
    [config |-> "dict", has_project |-> TRUE, project |-> <<"0", "1", "-", "s", "h", "o", "p">>, has_service |-> TRUE, service |-> <<"w", "e", "b", "_", "d", "b">>,
     cleaned |-> <<"s", "h", "o", "p">>, hint |-> FALSE],
    [config |-> "dict", has_project |-> TRUE, project |-> <<"4", "2">>, has_service |-> TRUE, service |-> <<"a", "p", "i">>,
     cleaned |-> <<>>, hint |-> FALSE],
    [config |-> "dict", has_project |-> TRUE, project |-> <<"m", "y", "_", "s", "i", "t", "e">>, has_service |-> FALSE, service |-> <<>>,
     cleaned |-> <<"m", "y", " ", "s", "i", "t", "e">>, hint |-> TRUE],
    [config |-> "dict", has_project |-> FALSE, project |-> <<>>, has_service |-> TRUE, service |-> <<"w", "o", "r", "k", "e", "r">>,
     cleaned |-> <<>>, hint |-> FALSE],
    [config |-> "dict", has_project |-> TRUE, project |-> <<>>, has_service |-> TRUE, service |-> <<"w", "e", "b">>,
     cleaned |-> <<>>, hint |-> TRUE] }

\* State of `docker inspect`.  state: "none" is a record without State,
\* "no_health" a State without Health (no health check), "no_status" a Health
\* without Status, "status" a Health with the Status given; the texts are the
\* four values of the engine's API (none, starting, healthy, unhealthy).
RawHealths ==
  { [state |-> "none",      status |-> <<>>],
    [state |-> "no_health", status |-> <<>>],
    [state |-> "no_status", status |-> <<>>],
    [state |-> "status",    status |-> <<"h", "e", "a", "l", "t", "h", "y">>],
    [state |-> "status",    status |-> <<"u", "n", "h", "e", "a", "l", "t", "h", "y">>],
    [state |-> "status",    status |-> <<"s", "t", "a", "r", "t", "i", "n", "g">>],
    [state |-> "status",    status |-> <<"n", "o", "n", "e">>] }

\* inspected: an inspect record was matched to the container.
RawSamples ==
  [id : RawIds, name : RawNames, status : RawStatuses, image : RawImages,
   inspected : BOOLEAN, labels : RawLabels, health : RawHealths]

Opt(present, key, value) == IF present THEN << <<key, value>> >> ELSE <<>>

\* The record of `docker ps` of a sample.
raw_container(s) ==
  MkDict(Opt(s.id.present, <<"I", "D">>, JStr(s.id.text))
         \o Opt(s.name.present, <<"N", "a", "m", "e", "s">>, JStr(s.name.text))
         \o Opt(s.status.present, <<"S", "t", "a", "t", "u", "s">>, JStr(s.status.text))
         \o << <<<<"I", "m", "a", "g", "e">>, JStr(s.image.text)>> >>)

raw_labels(l) ==
  MkDict(Opt(l.has_project, <<"c", "o", "m", ".", "d", "o", "c", "k", "e", "r", ".", "c", "o", "m", "p", "o", "s", "e", ".", "p", "r", "o", "j", "e", "c", "t">>, JStr(l.project))
         \o Opt(l.has_service, <<"c", "o", "m", ".", "d", "o", "c", "k", "e", "r", ".", "c", "o", "m", "p", "o", "s", "e", ".", "s", "e", "r", "v", "i", "c", "e">>, JStr(l.service)))

\* The record of `docker inspect` matched to a sample: {} when none matched.
raw_inspect(s) ==
  IF ~s.inspected THEN EmptyDict
  ELSE MkDict(<< <<<<"I", "d">>, JStr(<<"4", "f", "3", "c", "2", "d", "1", "e", "9", "0", "a", "1", "c", "0", "d", "e">>)>>,
                 <<<<"C", "o", "n", "f", "i", "g">>,
                   MkDict(<< <<<<"I", "m", "a", "g", "e">>, JStr(s.image.text)>> >>
                          \o Opt(s.labels.config /= "none", <<"L", "a", "b", "e", "l", "s">>,
                                 IF s.labels.config = "dict" THEN raw_labels(s.labels)
                                 ELSE JNull))>> >>
              \o Opt(s.health.state /= "none", <<"S", "t", "a", "t", "e">>,
                     MkDict(<< <<<<"R", "u", "n", "n", "i", "n", "g">>, JBool(s.status.stands_for = <<"r", "u", "n", "n", "i", "n", "g">>)>> >>
                            \o Opt(s.health.state \in {"no_status", "status"}, <<"H", "e", "a", "l", "t", "h">>,
                                   MkDict(<< <<<<"F", "a", "i", "l", "i", "n", "g", "S", "t", "r", "e", "a", "k">>, JNum(0)>> >>
                                          \o Opt(s.health.state = "status", <<"S", "t", "a", "t", "u", "s">>,
                                                 JStr(s.health.status)))))))

EnrichFrame == UNCHANGED <<now, files, meta, running, pc, op, loc, hist, runs, last,
                           unsorted, sorted>>

ChooseRaw ==
  /\ sample = JNull
  /\ \E s \in RawSamples : sample' = s
  /\ out' = JNull
  /\ EnrichFrame

\* derive_url and _enrich_container of the chosen records.
Enrich ==
  /\ sample /= JNull /\ out = JNull
  /\ out' = [url |-> derive_url(raw_container(sample), raw_inspect(sample)),
             enriched |-> enrich_container(raw_container(sample), raw_inspect(sample),
                                           EmptyDict)]
  /\ UNCHANGED sample
  /\ EnrichFrame

NextEnrich == ChooseRaw \/ Enrich

SpecEnrich == Init /\ [][NextEnrich]_vars

Enriched == sample /= JNull /\ out /= JNull

\* What the pieces of the sample say about it.
RawProject == IF sample.inspected /\ sample.labels.has_project THEN sample.labels.project ELSE <<>>
RawService == IF sample.inspected /\ sample.labels.has_service THEN sample.labels.service ELSE <<>>
RawCleaned == IF sample.inspected THEN sample.labels.cleaned ELSE <<>>
RawWeb ==
  \/ sample.image.web
  \/ sample.name.hint
  \/ sample.inspected /\ sample.labels.hint
RawFallback == IF sample.name.stripped /= <<>> THEN sample.name.stripped ELSE sample.id.shown

\* C12: with the default scheme derive_url returns
\* 'https://{service}.{project}.orb.local/' when the labels hold a non-empty
\* project and a non-empty service, and otherwise 'https://{n}.orb.local/' with
\* n the name without its leading '/', or the first 12 characters of the
\* identifier when the name is empty; the result ends with exactly one '/'.
C12_DerivedUrl ==
  Enriched =>
    LET domain == IF RawProject /= <<>> /\ RawService /= <<>>
                  THEN RawService \o <<".">> \o RawProject
                  ELSE RawFallback
        url == out.url.s
    IN  /\ out.url = JStr(<<"h", "t", "t", "p", "s", ":", "/", "/">> \o domain \o <<".", "o", "r", "b", ".", "l", "o", "c", "a", "l", "/">>)
        /\ url[Len(url)] = "/" /\ url[Len(url) - 1] /= "/"
        /\ out.enriched.d[<<"u", "r", "l">>] = out.url

\* A URL was derived from both labels, and one from the first 12 characters of
\* a longer identifier.
C12_Witness ==
  /\ Enriched
  /\ \/ out.url = JStr(<<"h", "t", "t", "p", "s", ":", "/", "/", "w", "e", "b", ".", "0", "0", "8", "9", "-", "d", "r", "a", "m", "d", "e", "a", "l", "s", ".", "o", "r", "b", ".", "l", "o", "c", "a", "l", "/">>)
     \/ out.url = JStr(<<"h", "t", "t", "p", "s", ":", "/", "/", "4", "f", "3", "c", "2", "d", "1", "e", "9", "0", "a", "1", ".", "o", "r", "b", ".", "l", "o", "c", "a", "l", "/">>) /\ Len(sample.id.text) > 12

\* C13: display_name of a web-classified container is
\* '{service} - {cleaned project}' when both are non-empty, else the cleaned
\* project or the service, whichever is non-empty; of any other container, or
\* when none of those gives a value, it is the service, else the stripped name,
\* else the first 12 characters of the identifier.
C13_DisplayName ==
  Enriched =>
    /\ out.enriched.d[<<"i", "s", "_", "w", "e", "b", "_", "s", "e", "r", "v", "i", "c", "e">>] = JBool(RawWeb)
    /\ out.enriched.d[<<"d", "i", "s", "p", "l", "a", "y", "_", "n", "a", "m", "e">>] =
         JStr(IF RawWeb /\ RawService /= <<>> /\ RawCleaned /= <<>>
                THEN RawService \o <<" ", "-", " ">> \o RawCleaned
              ELSE IF RawWeb /\ RawCleaned /= <<>> THEN RawCleaned
              ELSE IF RawService /= <<>> THEN RawService
              ELSE RawFallback)

\* Project '0089-dramdeals' with the web-classified service 'web' is shown as
\* 'web - dramdeals', or service 'web_db' of a container that is no web
\* service as 'web_db'.
C13_Witness ==
  /\ Enriched
  /\ \/ /\ RawProject = <<"0", "0", "8", "9", "-", "d", "r", "a", "m", "d", "e", "a", "l", "s">> /\ RawService = <<"w", "e", "b">>
        /\ out.enriched.d[<<"d", "i", "s", "p", "l", "a", "y", "_", "n", "a", "m", "e">>] = JStr(<<"w", "e", "b", " ", "-", " ", "d", "r", "a", "m", "d", "e", "a", "l", "s">>)
     \/ /\ RawService = <<"w", "e", "b", "_", "d", "b">> /\ ~RawWeb
        /\ out.enriched.d[<<"d", "i", "s", "p", "l", "a", "y", "_", "n", "a", "m", "e">>] = JStr(<<"w", "e", "b", "_", "d", "b">>)

\* C14: every enriched container, also one built from a record with an empty
\* name, no compose labels and a missing or empty ID, has a non-empty
\* display_name and a non-empty id.
C14_DisplayNameAndIdNonEmpty ==
  Enriched =>
    /\ out.enriched.d[<<"d", "i", "s", "p", "l", "a", "y", "_", "n", "a", "m", "e">>] /= EmptyStr
    /\ out.enriched.d[<<"i", "d">>] /= EmptyStr

\* C15: project and service of an enriched container are either both present
\* and non-empty or both absent; a record with only one of the two labels, or
\* with an empty label, gives both absent.
C15_ProjectAndServiceTogether ==
  Enriched =>
    LET project == out.enriched.d[<<"p", "r", "o", "j", "e", "c", "t">>]
        service == out.enriched.d[<<"s", "e", "r", "v", "i", "c", "e">>]
    IN  IF RawProject /= <<>> /\ RawService /= <<>>
        THEN project = JStr(RawProject) /\ service = JStr(RawService)
        ELSE project = JNull /\ service = JNull

\* C16: the enriched status is running when the lower-cased status text holds
\* 'up', else stopped when it holds 'exited', else unknown (also for a record
\* without status), and never anything else.
C16_StatusOfText ==
  Enriched =>
    /\ out.enriched.d[<<"s", "t", "a", "t", "u", "s">>] = JStr(sample.status.stands_for)
    /\ out.enriched.d[<<"s", "t", "a", "t", "u", "s">>] \in {JStr(<<"r", "u", "n", "n", "i", "n", "g">>), JStr(<<"s", "t", "o", "p", "p", "e", "d">>), JStr(<<"u", "n", "k", "n", "o", "w", "n">>)}

\* An upper-case status text was read as running, and a record without status
\* as unknown.
C16_Witness ==
  /\ Enriched
  /\ \/ sample.status.text = <<"U", "P", " ", "5", " ", "M", "I", "N", "U", "T", "E", "S", " ", "(", "P", "A", "U", "S", "E", "D", ")">> /\ out.enriched.d[<<"s", "t", "a", "t", "u", "s">>] = JStr(<<"r", "u", "n", "n", "i", "n", "g">>)
     \/ ~sample.status.present /\ out.enriched.d[<<"s", "t", "a", "t", "u", "s">>] = JStr(<<"u", "n", "k", "n", "o", "w", "n">>)

\* C17: the enriched health is one of healthy, unhealthy, starting and unknown:
\* the Status of State.Health of the inspect record, and unknown when the
\* record, its State, its Health or the Status is absent.
C17_HealthOfFourValues ==
  Enriched =>
    /\ out.enriched.d[<<"h", "e", "a", "l", "t", "h">>] \in
         {JStr(<<"h", "e", "a", "l", "t", "h", "y">>), JStr(<<"u", "n", "h", "e", "a", "l", "t", "h", "y">>), JStr(<<"s", "t", "a", "r", "t", "i", "n", "g">>), JStr(<<"u", "n", "k", "n", "o", "w", "n">>)}
    /\ out.enriched.d[<<"h", "e", "a", "l", "t", "h">>] =
         (IF sample.inspected /\ sample.health.state = "status"
          THEN JStr(sample.health.status) ELSE JStr(<<"u", "n", "k", "n", "o", "w", "n">>))

(***************************************************************************)
(* The runtime client on its own: list_containers, inspect_containers and   *)
(* get_stats called with or without a docker binary, with a command that    *)
(* ends in one of four ways, and with a response put together from lines    *)
(* that say what they are.                                                  *)
(***************************************************************************)
MaxLines == 2

Methods == {"list", "inspect", "stats"}

\* How subprocess.run can end: exit 0, another exit code, TimeoutExpired, or
\* an exception on launch (OSError).
ClientOutcomes == Outcomes \cup {"launch_failed"}

ClientIds == { <<>>, <<Population[1].short_id>>, <<Population[1].short_id, Population[2].short_id>> }

\* The lines of a response: the well-formed line of the first or the second
\* container, or one of the malformed lines.
LineKinds == {"first", "second"} \cup (Noise \ {"none"})
WellFormed == {"first", "second"}
LineIndex(kind) == IF kind = "first" THEN 1 ELSE 2

\* A malformed line of `docker stats`: one word, two words, a blank line.
StatsNoise ==
  [garbage |-> <<"E", "r", "r", "o", "r">>, not_object |-> Population[1].short_id \o <<" ", "0", ".", "5", "0", "%">>, no_id |-> <<>>]

ClientLine(method, kind) ==
  IF kind \in WellFormed
  THEN CASE method = "list" -> JsonDump(PsRecord(LineIndex(kind), TRUE))
         [] method = "inspect" -> JsonDump(InspectRecord(LineIndex(kind)))
         [] method = "stats" -> StatsStdout(<<Population[LineIndex(kind)].short_id>>)[1]
  ELSE IF method = "stats" THEN StatsNoise[kind] ELSE NoiseLines[kind][1]

ClientStdout(method, kinds) == [i \in 1..Len(kinds) |-> ClientLine(method, kinds[i])]

LineSeqs == UNION {[1..n -> LineKinds] : n \in 0..MaxLines}

ClientSamples ==
  [method : Methods, docker_path : BOOLEAN, outcome : ClientOutcomes, ids : ClientIds,
   lines : LineSeqs]

\* A call of a client method: what it returns, whether it raised, and whether
\* subprocess.run was reached.
call_list_containers(docker_path, outcome, lines) ==
  [value |-> list_containers(QueryRun(docker_path, outcome, lines)),
   raised |-> FALSE, invoked |-> docker_path]

call_inspect_containers(ids, docker_path, outcome, lines) ==
  IF ids = <<>> THEN [value |-> <<>>, raised |-> FALSE, invoked |-> FALSE]
  ELSE LET inspected == inspect_containers(QueryRun(docker_path, outcome, lines))
       IN  [value |-> inspected.items, raised |-> inspected.raised, invoked |-> docker_path]

call_get_stats(ids, docker_path, outcome, lines) ==
  IF ids = <<>> THEN [value |-> EmptyDict, raised |-> FALSE, invoked |-> FALSE]
  ELSE [value |-> get_stats(QueryRun(docker_path, outcome, lines)),
        raised |-> FALSE, invoked |-> docker_path]

ClientFrame == UNCHANGED <<now, files, meta, running, pc, op, loc, hist, runs, last,
                           unsorted, sorted>>

ChooseCall ==
  /\ sample = JNull
  /\ \E s \in ClientSamples : sample' = s
  /\ out' = JNull
  /\ ClientFrame

Call ==
  /\ sample /= JNull /\ out = JNull
  /\ LET stdout == ClientStdout(sample.method, sample.lines) IN
     out' = CASE sample.method = "list" ->
                   call_list_containers(sample.docker_path, sample.outcome, stdout)
              [] sample.method = "inspect" ->
                   call_inspect_containers(sample.ids, sample.docker_path, sample.outcome, stdout)
              [] sample.method = "stats" ->
                   call_get_stats(sample.ids, sample.docker_path, sample.outcome, stdout)
  /\ UNCHANGED sample
  /\ ClientFrame

NextClient == ChooseCall \/ Call

SpecClient == Init /\ [][NextClient]_vars

Called == sample /= JNull /\ out /= JNull

\* What the sample says about the call.
CallFails == ~sample.docker_path \/ sample.outcome /= "ok"
CallWithoutIds == sample.method /= "list" /\ sample.ids = <<>>
EmptyResult == IF sample.method = "stats" THEN EmptyDict ELSE <<>>
\* The identifiers of the entries returned ('' for an entry without one), and
\* of the well-formed lines.
ReturnedIds ==
  CASE sample.method = "list" ->
         {IF IsDict(out.value[i]) /\ HasKey(out.value[i], <<"I", "D">>)
          THEN out.value[i].d[<<"I", "D">>].s ELSE <<>> : i \in 1..Len(out.value)}
    [] sample.method = "inspect" -> {out.value[i].id : i \in 1..Len(out.value)}
    [] sample.method = "stats" -> DOMAIN out.value.d
WellFormedIds ==
  {IF sample.method = "inspect" THEN Population[LineIndex(sample.lines[i])].full_id
   ELSE Population[LineIndex(sample.lines[i])].short_id :
     i \in {j \in 1..Len(sample.lines) : sample.lines[j] \in WellFormed}}

\* The response holds only lines of the kinds the malformed-line rule names:
\* well-formed ones, text that cannot be parsed, records without identifier.
ClaimedLines == \A i \in 1..Len(sample.lines) : sample.lines[i] /= "not_object"

\* C18: list_containers, inspect_containers and get_stats return an empty
\* result and raise nothing when the docker binary is missing, the command
\* exits non-zero, times out or cannot be launched; inspect_containers and
\* get_stats with no identifiers return an empty mapping without running the
\* runtime.
C18_FailureGivesEmpty ==
  Called =>
    /\ CallFails => out.value = EmptyResult /\ ~out.raised
    /\ CallWithoutIds => out.value = EmptyResult /\ ~out.raised /\ ~out.invoked

\* A command that timed out, or could not be launched, after which the method
\* returned nothing although the response had lines; and an inspect call
\* without identifiers.
C18_Witness ==
  /\ Called
  /\ \/ /\ sample.docker_path /\ sample.outcome \in {"timeout", "launch_failed"}
        /\ sample.lines /= <<>> /\ out.value = EmptyResult /\ out.invoked
     \/ /\ sample.method = "inspect" /\ sample.ids = <<>> /\ ~CallFails /\ ~out.invoked

\* C19: from every response of several lines inspect_containers (and
\* list_containers, and get_stats) returns one entry for every well-formed
\* line and skips every malformed one, without failing.
C19_MalformedLinesSkipped ==
  Called /\ ~CallFails /\ ~CallWithoutIds /\ ClaimedLines =>
    /\ ~out.raised
    /\ ReturnedIds = WellFormedIds

(***************************************************************************)
(* The statistics request on its own: the identifiers get_all_containers    *)
(* hands to get_stats, over listings long enough to pass the limit.  A      *)
(* listing says which of its positions hold a running container.            *)
(***************************************************************************)
MaxListed == 12

\* Status texts of `docker ps` for a container that is not up.
IdleStatuses == {<<"E", "x", "i", "t", "e", "d", " ", "(", "0", ")", " ", "3", " ", "d", "a", "y", "s", " ", "a", "g", "o">>, <<"R", "e", "s", "t", "a", "r", "t", "i", "n", "g", " ", "(", "1", ")", " ", "4", " ", "s", "e", "c", "o", "n", "d", "s", " ", "a", "g", "o">>}

\* length: the number of containers listed; up: the positions of the running
\* ones; idle: the status text of the others.
Listings ==
  UNION {[enable_stats : BOOLEAN, length : {n}, up : SUBSET (1..n), idle : IdleStatuses] :
           n \in 0..MaxListed}

ListedId(i) == <<"c", "0", "f", "f", "e", "e">> \o Digits(i \div 10) \o Digits(i % 10)

listed_containers(s) ==
  [i \in 1..s.length |->
     MkDict(<< <<<<"I", "D">>, JStr(ListedId(i))>>,
               <<<<"N", "a", "m", "e", "s">>, JStr(<<"/", "s", "v", "c", "-">> \o Digits(i))>>,
               <<<<"I", "m", "a", "g", "e">>, JStr(<<"b", "u", "s", "y", "b", "o", "x">>)>>,
               <<<<"S", "t", "a", "t", "u", "s">>, JStr(IF i \in s.up THEN <<"U", "p", " ", "2", " ", "h", "o", "u", "r", "s">> ELSE s.idle)>> >>)]

\* get_all_containers, the statistics step: whether get_stats is called, and
\* with which identifiers.
stats_request(enable_stats, containers) ==
  IF enable_stats THEN [called |-> TRUE, ids |-> running_ids(containers)]
  ELSE [called |-> FALSE, ids |-> <<>>]

StatsFrame == UNCHANGED <<now, files, meta, running, pc, op, loc, hist, runs, last,
                          unsorted, sorted>>

ChooseListing ==
  /\ sample = JNull
  /\ \E s \in Listings : sample' = s
  /\ out' = JNull
  /\ StatsFrame

RequestStats ==
  /\ sample /= JNull /\ out = JNull
  /\ out' = stats_request(sample.enable_stats, listed_containers(sample))
  /\ UNCHANGED sample
  /\ StatsFrame

NextStats == ChooseListing \/ RequestStats

SpecStats == Init /\ [][NextStats]_vars

Requested == sample /= JNull /\ out /= JNull

\* The running positions with fewer than ten running positions before them,
\* and the number of running positions before a position.
RunningBefore(i) == Cardinality({j \in sample.up : j < i})
FirstTenRunning == {i \in sample.up : RunningBefore(i) < 10}

StatsKeys ==
  { [text |-> Population[1].short_id, of |-> 1, form |-> "exact",  cpu |-> <<"0", ".", "1", "0", "%">>],
    [text |-> Population[1].full_id,  of |-> 1, form |-> "longer", cpu |-> <<"0", ".", "2", "0", "%">>],
    [text |-> Population[2].short_id, of |-> 2, form |-> "exact",  cpu |-> <<"0", ".", "3", "0", "%">>],
    [text |-> Population[2].full_id,  of |-> 2, form |-> "longer", cpu |-> <<"0", ".", "4", "0", "%">>],
    [text |-> Population[1].name,     of |-> 1, form |-> "other",  cpu |-> <<"0", ".", "5", "0", "%">>],
    [text |-> <<"c", "0", "f", "f", "e", "e">>,              of |-> 0, form |-> "other",  cpu |-> <<"0", ".", "6", "0", "%">>] }

StatsSample(key) ==
  MkDict(<< <<<<"c", "p", "u", "_", "p", "e", "r", "c", "e", "n", "t">>, JStr(key.cpu)>>, <<<<"m", "e", "m", "o", "r", "y", "_", "u", "s", "a", "g", "e">>, JStr(<<"1", "0", "M", "i", "B", " ", "/", " ", "1", "G", "i", "B">>)>> >>)

\* The mapping get_stats returns for a set of keys.
stats_mapping(keys) ==
  JDict([text \in {k.text : k \in keys} |->
           StatsSample(CHOOSE k \in keys : k.text = text)])

AttachSamples == [container : Containers, is_running : BOOLEAN, keys : SUBSET StatsKeys]

AttachFrame == UNCHANGED <<now, files, meta, running, pc, op, loc, hist, runs, last,
                           unsorted, sorted>>

ChooseStats ==
  /\ sample = JNull
  /\ \E s \in AttachSamples : sample' = s
  /\ out' = JNull
  /\ AttachFrame

\* The enrichment loop for the listed container, its inspect record and the
\* statistics mapping.
Attach ==
  /\ sample /= JNull /\ out = JNull
  /\ out' = JList(enrich_all(<<PsRecord(sample.container, sample.is_running)>>,
                             <<[id |-> Population[sample.container].full_id,
                                data |-> InspectRecord(sample.container)]>>,
                             stats_mapping(sample.keys)))
  /\ UNCHANGED sample
  /\ AttachFrame

NextAttach == ChooseStats \/ Attach

SpecAttach == Init /\ [][NextAttach]_vars

Attached == sample /= JNull /\ out /= JNull

\* The keys of the sample equal to the container's list identifier, or of which
\* that identifier is a prefix.
MatchingKeys == {k \in sample.keys : k.of = sample.container /\ k.form \in {"exact", "longer"}}

\* C21: a statistics sample is attached to a container whenever the statistics
\* mapping has a key equal to its list identifier or a key of which that
\* identifier is a prefix, and the container gets an empty mapping only when
\* there is no such key.
C21_StatsAttachedByExactOrPrefix ==
  Attached =>
    LET stats == out.l[1].d[<<"s", "t", "a", "t", "s">>]
    IN  IF MatchingKeys = {} THEN stats = EmptyDict
        ELSE \E k \in MatchingKeys : stats = StatsSample(k)

(***************************************************************************)
(* The picker's texts: format_subtitle, create_container_item and           *)
(* create_project_item.  A character outside ASCII is one element of a str, *)
(* named by its code point.                                                 *)
(***************************************************************************)
Bullet == "U+2022"
Globe == "U+1F310"
Package == "U+1F4E6"
CheckMark == "U+2705"
StopSign == "U+1F6D1"

\* s.rstrip(c) for a one-character c.
RECURSIVE RStrip(_, _)
RStrip(s, c) == IF s /= <<>> /\ s[Len(s)] = c THEN RStrip(SubSeq(s, 1, Len(s) - 1), c) ELSE s

\* sep.join(parts)
RECURSIVE Join(_, _)
Join(parts, sep) ==
  IF parts = <<>> THEN <<>>
  ELSE IF Len(parts) = 1 THEN parts[1]
  ELSE parts[1] \o sep \o Join(Tail(parts), sep)

subtitle_status_with_any_health(container) ==
  DictGet(container, <<"s", "t", "a", "t", "u", "s">>, JStr(<<"u", "n", "k", "n", "o", "w", "n">>)).s
    \o <<" ", Bullet, " ">> \o DictGet(container, <<"h", "e", "a", "l", "t", "h">>, EmptyStr).s

\* The status segment: the status, followed by the health unless it is
\* missing, empty or 'unknown'.
subtitle_status(container) ==
  LET status == DictGet(container, <<"s", "t", "a", "t", "u", "s">>, JStr(<<"u", "n", "k", "n", "o", "w", "n">>)).s
      health == DictGet(container, <<"h", "e", "a", "l", "t", "h">>, JNull)
  IN  IF Truthy(health) /\ health /= JStr(<<"u", "n", "k", "n", "o", "w", "n">>)
      THEN status \o <<" ", Bullet, " ">> \o health.s
      ELSE status

format_subtitle(container) ==
  LET project == DictGet(container, <<"p", "r", "o", "j", "e", "c", "t">>, JNull)
      url == DictGet(container, <<"u", "r", "l">>, JNull)
      stats == DictGet(container, <<"s", "t", "a", "t", "s">>, EmptyDict)
      cpu_percent == DictGet(stats, <<"c", "p", "u", "_", "p", "e", "r", "c", "e", "n", "t">>, JNull)
      ports == DictGet(container, <<"p", "o", "r", "t", "s">>, EmptyStr)
      parts ==
        (IF Truthy(project) THEN <<project.s>> ELSE <<>>)
        \o <<subtitle_status(container)>>
        \o (IF Truthy(DictGet(container, <<"i", "s", "_", "w", "e", "b", "_", "s", "e", "r", "v", "i", "c", "e">>, JNull)) /\ Truthy(url)
            THEN << <<Globe, " ">> \o RStrip(url.s, "/") >> ELSE <<>>)
        \o (IF Truthy(cpu_percent) THEN <<cpu_percent.s \o <<" ", "C", "P", "U">>>> ELSE <<>>)
        \o (IF Truthy(ports) /\ Contains(ports.s, <<"-", ">">>)
            THEN <<<<"p", "o", "r", "t", "s", ":", " ">> \o Strip(Split(ports.s, <<",">>)[1])>> ELSE <<>>)
  IN  Join(parts, <<" ", Bullet, " ">>)

\* create_container_item: the title of the item.
container_item_title(container) ==
  LET title == container.d[<<"d", "i", "s", "p", "l", "a", "y", "_", "n", "a", "m", "e">>].s
  IN  IF Truthy(DictGet(container, <<"i", "s", "_", "w", "e", "b", "_", "s", "e", "r", "v", "i", "c", "e">>, JNull))
      THEN <<Globe, " ">> \o title ELSE title

\* create_project_item: the title of the item.
project_item_title(project, containers) == <<Package, " ">> \o project

\* Fields of an enriched container as the picker gets them (present: the
\* dict has the key); shown: the text the field contributes to the subtitle,
\* none when the field is missing or empty.
ItemProjects ==
  { [present |-> FALSE, value |-> JNull,            shown |-> <<>>],
    [present |-> TRUE,  value |-> JNull,            shown |-> <<>>],
    [present |-> TRUE,  value |-> JStr(<<"0", "1", "-", "s", "h", "o", "p">>), shown |-> <<"0", "1", "-", "s", "h", "o", "p">>] }

ItemStatuses == {<<"r", "u", "n", "n", "i", "n", "g">>, <<"s", "t", "o", "p", "p", "e", "d">>, <<"u", "n", "k", "n", "o", "w", "n">>}

ItemHealths ==
  { [present |-> FALSE, value |-> JNull,             shown |-> <<>>],
    [present |-> TRUE,  value |-> JStr(<<>>),         shown |-> <<>>],
    [present |-> TRUE,  value |-> JStr(<<"u", "n", "k", "n", "o", "w", "n">>),  shown |-> <<>>],
    [present |-> TRUE,  value |-> JStr(<<"h", "e", "a", "l", "t", "h", "y">>),  shown |-> <<"h", "e", "a", "l", "t", "h", "y">>],
    [present |-> TRUE,  value |-> JStr(<<"s", "t", "a", "r", "t", "i", "n", "g">>), shown |-> <<"s", "t", "a", "r", "t", "i", "n", "g">>] }

ItemWebs ==
  { [present |-> FALSE, value |-> JNull,        web |-> FALSE],
    [present |-> TRUE,  value |-> JBool(FALSE), web |-> FALSE],
    [present |-> TRUE,  value |-> JBool(TRUE),  web |-> TRUE] }

ItemUrls ==
  { [present |-> FALSE, value |-> JNull, shown |-> <<>>],
    [present |-> TRUE,  value |-> JStr(<<"h", "t", "t", "p", "s", ":", "/", "/", "w", "e", "b", ".", "0", "1", "-", "s", "h", "o", "p", ".", "o", "r", "b", ".", "l", "o", "c", "a", "l", "/">>),
     shown |-> <<"h", "t", "t", "p", "s", ":", "/", "/", "w", "e", "b", ".", "0", "1", "-", "s", "h", "o", "p", ".", "o", "r", "b", ".", "l", "o", "c", "a", "l">>] }

ItemStats ==
  { [present |-> FALSE, value |-> JNull,     shown |-> <<>>],
    [present |-> TRUE,  value |-> EmptyDict, shown |-> <<>>],
    [present |-> TRUE,  value |-> MkDict(<< <<<<"c", "p", "u", "_", "p", "e", "r", "c", "e", "n", "t">>, JStr(<<"0", ".", "5", "%">>)>>,
                                            <<<<"m", "e", "m", "o", "r", "y", "_", "u", "s", "a", "g", "e">>, JStr(<<"1", "0", "M", "i", "B", " ", "/", " ", "1", "G", "i", "B">>)>> >>),
     shown |-> <<"0", ".", "5", "%">>] }

\* shown: the first port mapping of the column.
ItemPorts ==
  { [present |-> FALSE, value |-> JNull,                         shown |-> <<>>],
    [present |-> TRUE,  value |-> JStr(<<>>),                     shown |-> <<>>],
    [present |-> TRUE,  value |-> JStr(<<"8", "0", "/", "t", "c", "p">>),               shown |-> <<>>],
    [present |-> TRUE,  value |-> JStr(<<"0", ".", "0", ".", "0", ".", "0", ":", "8", "0", "8", "0", "-", ">", "8", "0", "/", "t", "c", "p">>), shown |-> <<"0", ".", "0", ".", "0", ".", "0", ":", "8", "0", "8", "0", "-", ">", "8", "0", "/", "t", "c", "p">>],
    [present |-> TRUE,  value |-> JStr(<<"0", ".", "0", ".", "0", ".", "0", ":", "8", "0", "8", "0", "-", ">", "8", "0", "/", "t", "c", "p", ",", " ", ":", ":", ":", "8", "0", "8", "0", "-", ">", "8", "0", "/", "t", "c", "p">>),
     shown |-> <<"0", ".", "0", ".", "0", ".", "0", ":", "8", "0", "8", "0", "-", ">", "8", "0", "/", "t", "c", "p">>] }

\* The statuses of the other containers of the project.
ItemSiblings == { <<>>, <<<<"r", "u", "n", "n", "i", "n", "g">>>>, <<<<"s", "t", "o", "p", "p", "e", "d">>>> }

ItemSamples ==
  [project : ItemProjects, status : ItemStatuses, health : ItemHealths, web : ItemWebs,
   url : ItemUrls, stats : ItemStats, ports : ItemPorts, siblings : ItemSiblings]

item_container(s) ==
  MkDict(<< <<<<"d", "i", "s", "p", "l", "a", "y", "_", "n", "a", "m", "e">>, JStr(<<"w", "e", "b", " ", "-", " ", "s", "h", "o", "p">>)>>, <<<<"s", "t", "a", "t", "u", "s">>, JStr(s.status)>> >>
         \o Opt(s.project.present, <<"p", "r", "o", "j", "e", "c", "t">>, s.project.value)
         \o Opt(s.health.present, <<"h", "e", "a", "l", "t", "h">>, s.health.value)
         \o Opt(s.web.present, <<"i", "s", "_", "w", "e", "b", "_", "s", "e", "r", "v", "i", "c", "e">>, s.web.value)
         \o Opt(s.url.present, <<"u", "r", "l">>, s.url.value)
         \o Opt(s.stats.present, <<"s", "t", "a", "t", "s">>, s.stats.value)
         \o Opt(s.ports.present, <<"p", "o", "r", "t", "s">>, s.ports.value))

item_siblings(s) ==
  [i \in 1..Len(s.siblings) |->
     MkDict(<< <<<<"d", "i", "s", "p", "l", "a", "y", "_", "n", "a", "m", "e">>, JStr(<<"d", "b">>)>>, <<<<"s", "t", "a", "t", "u", "s">>, JStr(s.siblings[i])>> >>)]

ItemFrame == UNCHANGED <<now, files, meta, running, pc, op, loc, hist, runs, last,
                         unsorted, sorted>>

ChooseItem ==
  /\ sample = JNull
  /\ \E s \in ItemSamples : sample' = s
  /\ out' = JNull
  /\ ItemFrame

\* The texts of the container's item and of its project's item.
CreateItems ==
  /\ sample /= JNull /\ out = JNull
  /\ out' = [subtitle |-> format_subtitle(item_container(sample)),
             title |-> container_item_title(item_container(sample)),
             project_title |-> project_item_title(<<"0", "1", "-", "s", "h", "o", "p">>,
                                 <<item_container(sample)>> \o item_siblings(sample))]
  /\ UNCHANGED sample
  /\ ItemFrame

NextItem == ChooseItem \/ CreateItems

SpecItem == Init /\ [][NextItem]_vars

ItemsCreated == sample /= JNull /\ out /= JNull

\* What the pieces of the sample say about it.
Separator == <<" ", Bullet, " ">>
After(text) == IF text = <<>> THEN <<>> ELSE Separator \o text
Labelled(label, text) == IF text = <<>> THEN <<>> ELSE label \o text
ItemUrlShown == IF sample.web.web THEN sample.url.shown ELSE <<>>

\* C22: format_subtitle shows no health when the health is 'unknown' or
\* missing, and '{status} . {health}' otherwise; the segments are the project,
\* the status, the web URL, the CPU and the ports, in this order, joined by
\* ' . ' (a bullet) with missing fields left out, so that a container with
\* only the status 'running' gives 'running'.
C22_SubtitleSegments ==
  ItemsCreated =>
    out.subtitle =
      (IF sample.project.shown = <<>> THEN <<>> ELSE sample.project.shown \o Separator)
      \o sample.status \o After(sample.health.shown)
      \o After(Labelled(<<Globe, " ">>, ItemUrlShown))
      \o After(IF sample.stats.shown = <<>> THEN <<>> ELSE sample.stats.shown \o <<" ", "C", "P", "U">>)
      \o After(Labelled(<<"p", "o", "r", "t", "s", ":", " ">>, sample.ports.shown))

\* A container with only the status 'running' gave 'running', and one with a
\* health, a project, a URL, a CPU share and ports gave all five segments.
C22_Witness ==
  /\ ItemsCreated
  /\ \/ /\ ~sample.project.present /\ ~sample.health.present /\ ~sample.web.present
        /\ ~sample.url.present /\ ~sample.stats.present /\ ~sample.ports.present
        /\ sample.status = <<"r", "u", "n", "n", "i", "n", "g">> /\ out.subtitle = <<"r", "u", "n", "n", "i", "n", "g">>
     \/ out.subtitle = <<"0", "1", "-", "s", "h", "o", "p">> \o Separator \o <<"r", "u", "n", "n", "i", "n", "g">> \o Separator \o <<"h", "e", "a", "l", "t", "h", "y">>
                         \o Separator \o <<Globe, " ">> \o <<"h", "t", "t", "p", "s", ":", "/", "/", "w", "e", "b", ".", "0", "1", "-", "s", "h", "o", "p", ".", "o", "r", "b", ".", "l", "o", "c", "a", "l">>
                         \o Separator \o <<"0", ".", "5", "%", " ", "C", "P", "U">>
                         \o Separator \o <<"p", "o", "r", "t", "s", ":", " ", "0", ".", "0", ".", "0", ".", "0", ":", "8", "0", "8", "0", "-", ">", "8", "0", "/", "t", "c", "p">>

\* C23: the title of a container's item ends with a check mark when the
\* container is running and with a stop sign when it is stopped, and starts
\* with a globe exactly when the container is a web service; the title of a
\* project's item ends with a check mark when a container of the project is
\* running and with a stop sign when all are stopped.
C23_TitlesEndWithStatusEmoji ==
  ItemsCreated /\ sample.status /= <<"u", "n", "k", "n", "o", "w", "n">> =>
    LET mark(is_running) == IF is_running THEN CheckMark ELSE StopSign
        any_running == sample.status = <<"r", "u", "n", "n", "i", "n", "g">> \/ sample.siblings = <<<<"r", "u", "n", "n", "i", "n", "g">>>>
    IN  /\ out.title[Len(out.title)] = mark(sample.status = <<"r", "u", "n", "n", "i", "n", "g">>)
        /\ (out.title[1] = Globe) <=> sample.web.web
        /\ out.project_title[Len(out.project_title)] = mark(any_running)

(***************************************************************************)
(* Properties of overlapping processes, and of the records a refresh puts   *)
(* together                                                                 *)
(***************************************************************************)
\* 'containers.json' holds a complete document younger than the TTL: the
\* entry a Cache.get would return.
FreshEntry == meta.complete /\ now - meta.timestamp < cache_ttl_ms

\* The statuses of a catalog are those of the runtime as it is now.
AgreesWithRuntime(catalog) ==
  \A i \in 1..Len(catalog.l) :
    LET e == catalog.l[i]
        c == Target(e.d[<<"i", "d">>].s)
    IN  c /= 0 => ((e.d[<<"s", "t", "a", "t", "u", "s">>] = JStr(<<"r", "u", "n", "n", "i", "n", "g">>)) <=> running[c])

\* C24: once the dispatcher has cleared the cache after a successful start,
\* stop or restart, the cache holds no snapshot listed before that command: a
\* refresh that listed the containers before it leaves no result in the cache.
C24_NoStaleSnapshotAfterInvalidation ==
  \A d \in Dispatchers :
    (/\ pc[d] = "done" /\ op[d].kind \in {"start", "stop", "restart"}
     /\ hist[d].cleared /\ FreshEntry)
    => AgreesWithRuntime(meta.data)

\* C25: the unlink of a Cache.get that saw an expired or invalid entry never
\* removes a complete entry within its TTL that another process wrote since.
C25_UnlinkStep ==
  \A p \in Procs : (pc[p] = "get_unlink" /\ pc'[p] /= "get_unlink") => ~FreshEntry
C25_GetNeverDeletesFreshEntry == [][C25_UnlinkStep]_vars

\* C26: the inspect record attached to an enriched container is empty or the
\* record of that same container, also when the list identifier is missing or
\* empty: no container gets the labels, health or ports of another one.
C26_OwnInspectRecord ==
  \A p \in Procs :
    Returned(p) /\ IsList(loc[p].result) =>
      \A i \in 1..Len(loc[p].result.l) :
        LET e == loc[p].result.l[i]
            id == e.d[<<"i", "d">>].s
            record == e.d[<<"r", "a", "w", "_", "i", "n", "s", "p", "e", "c", "t">>]
        IN  \/ record = EmptyDict
            \/ id /= <<>> /\ StartsWith(record.d[<<"I", "d">>].s, id)

\* The entries of the snapshot a project action works on whose project is the
\* requested one, and those of them the action type asks a command for.
OfProject(d) ==
  {i \in 1..Len(loc[d].result.l) : loc[d].result.l[i].d[<<"p", "r", "o", "j", "e", "c", "t">>] = op[d].project}
ToCommand(d) ==
  {i \in OfProject(d) :
     \/ op[d].action_type = "start_project" /\ loc[d].result.l[i].d[<<"s", "t", "a", "t", "u", "s">>] /= JStr(<<"r", "u", "n", "n", "i", "n", "g">>)
     \/ op[d].action_type = "stop_project" /\ loc[d].result.l[i].d[<<"s", "t", "a", "t", "u", "s">>] = JStr(<<"r", "u", "n", "n", "i", "n", "g">>)}
ProjectActionEnded(d) == pc[d] = "done" /\ op[d].kind = "project" /\ IsList(loc[d].result)

\* The selection hands on one identifier per container to command.
C27_SelectStep ==
  \A d \in Dispatchers :
    (pc[d] = "project_select" /\ pc'[d] /= "project_select") =>
      /\ {loc'[d].todo[k] : k \in 1..Len(loc'[d].todo)}
           = {loc[d].result.l[i].d[<<"i", "d">>].s : i \in ToCommand(d)}
      /\ Len(loc'[d].todo) = Cardinality(ToCommand(d))

\* A step of the batch commands the next identifier, with 'start' or 'stop' as
\* the action type says, and leaves every other container alone; no other
\* step changes the runtime meanwhile.
C27_BatchStep ==
  \A d \in Dispatchers :
    pc[d] = "batch" =>
      /\ op[d].action_type \in {"start_project", "stop_project"}
      /\ IF loc'[d].todo = loc[d].todo THEN running' = running
         ELSE /\ loc'[d].todo = Tail(loc[d].todo)
              /\ running' \in {running,
                               Effect(running, IF op[d].action_type = "start_project"
                                               THEN "start" ELSE "stop", Head(loc[d].todo))}

C27_AfterAction ==
  \A d \in Dispatchers :
    ProjectActionEnded(d) =>
      /\ hist[d].issued > 0 => ~file.exists
      /\ (OfProject(d) = {} \/ op[d].action_type \notin {"start_project", "stop_project"})
           => hist[d].issued = 0 /\ ~hist[d].cleared

====
